---- MODULE Spec2Model ----
(***************************************************************************)
(* Booking lifecycle of the Ed Share tutoring marketplace: the bookings    *)
(* router (POST /api/bookings, PUT /:id/status, PUT /:id/cancel), the      *)
(* payments router (Razorpay verify, Stripe confirm, refund) and the tutor *)
(* profile update, over a store of booking documents; the tutor search and *)
(* KYC routes, the notification senders, the payment gateways' orders and  *)
(* refunds, and the chat server's registry of connected sockets.           *)
(*                                                                         *)
(* Times of day are the strings of the request body, kept as sequences of  *)
(* one-character strings so that the store's string ordering is the        *)
(* byte-wise one.  Instants (scheduledDate, Date.now()) are minutes since  *)
(* midnight of day 0.  Amounts are exact rationals scaled by AmountScale.  *)
(***************************************************************************)
EXTENDS Integers, Sequences, FiniteSets, TLC

VARIABLES tutors, bookings, reqs, now, resp, notices, found, gateway, sockets,
          activeConnections

vars == <<tutors, bookings, reqs, now, resp, notices, found, gateway, sockets,
          activeConnections>>

----------------------------------------------------------------------------
(* Bounds *)

MaxNow == 540

MaxRequests == 2

\* orders and payment intents created at the gateway
MaxOrders == 2

\* refunds the gateway issues
MaxRefunds == 2

\* sockets the chat server has accepted
MaxSockets == 3

----------------------------------------------------------------------------
(* Strings of the request body *)

Digits == <<"0", "1", "2", "3", "4", "5", "6", "7", "8", "9">>

IsDigit(c) == \E i \in 1..10 : Digits[i] = c

DigitVal(c) == (CHOOSE i \in 1..10 : Digits[i] = c) - 1

\* code unit of a character of a time string ('0'..'9' = 48..57, ':' = 58)
Code(c) == IF c = ":" THEN 58 ELSE 48 + DigitVal(c)

RECURSIVE StrCmp(_, _)
\* the store's simple binary string comparison: -1, 0 or 1
StrCmp(a, b) ==
  IF a = <<>> THEN (IF b = <<>> THEN 0 ELSE -1)
  ELSE IF b = <<>> THEN 1
  ELSE IF Code(Head(a)) < Code(Head(b)) THEN -1
  ELSE IF Code(Head(a)) > Code(Head(b)) THEN 1
  ELSE StrCmp(Tail(a), Tail(b))

StrLt(a, b) == StrCmp(a, b) < 0

StrLte(a, b) == StrCmp(a, b) <= 0

StrGt(a, b) == StrCmp(a, b) > 0

StrGte(a, b) == StrCmp(a, b) >= 0

\* /^([0-1]?[0-9]|2[0-3]):[0-5][0-9]$/
MatchesTime(t) ==
  \/ /\ Len(t) = 4
     /\ IsDigit(t[1])
     /\ t[2] = ":"
     /\ t[3] \in {"0", "1", "2", "3", "4", "5"}
     /\ IsDigit(t[4])
  \/ /\ Len(t) = 5
     /\ \/ t[1] \in {"0", "1"} /\ IsDigit(t[2])
        \/ t[1] = "2" /\ t[2] \in {"0", "1", "2", "3"}
     /\ t[3] = ":"
     /\ t[4] \in {"0", "1", "2", "3", "4", "5"}
     /\ IsDigit(t[5])

\* wall-clock minutes since midnight of a time string that MatchesTime
WallMinutes(t) ==
  IF Len(t) = 4
  THEN DigitVal(t[1]) * 60 + DigitVal(t[3]) * 10 + DigitVal(t[4])
  ELSE (DigitVal(t[1]) * 10 + DigitVal(t[2])) * 60
         + DigitVal(t[4]) * 10 + DigitVal(t[5])

\* String.prototype.toLowerCase on the subject names in use
ToLowerCase(s) ==
  CASE s = "Math" -> "math"
    [] s = "MATH" -> "math"
    [] s = "Physics" -> "physics"
    [] OTHER -> s

T0900u == <<"9", ":", "0", "0">>

T0900 == <<"0", "9", ":", "0", "0">>

T1000 == <<"1", "0", ":", "0", "0">>

T1030 == <<"1", "0", ":", "3", "0">>

T1100 == <<"1", "1", ":", "0", "0">>

T1200 == <<"1", "2", ":", "0", "0">>

T2400 == <<"2", "4", ":", "0", "0">>

----------------------------------------------------------------------------
(* Directory: users, student and tutor profiles *)

UserIds == {"us1", "ut1", "ut2", "ua", "ue"}

Role(u) ==
  CASE u = "us1" -> "student"
    [] u \in {"ut1", "ut2"} -> "tutor"
    [] u = "ua" -> "admin"
    [] OTHER -> "employee"

TutorIds == {"t1", "t2"}

StudentIds == {"s1"}

\* Student.findOne({ user }): the student profile of a user, "none" if absent
StudentOfUser(u) == IF u = "us1" THEN "s1" ELSE "none"

StudentUser(s) == "us1"

ActiveStatuses == {"scheduled", "confirmed", "in_progress"}

TerminalStatuses == {"completed", "cancelled", "no_show"}

Classes == {"LKG", "UKG", "1", "2", "3", "4", "5", "6", "7", "8", "9", "10", "11", "12"}

Boards == {"CBSE", "ICSE", "State Board", "IB", "IGCSE", "NIOS"}

SessionTypes == {"demo", "regular", "assessment", "group"}

Modes == {"online", "offline"}

MinDuration == 30

MaxDuration == 180

DayMinutes == 24 * 60

Offering(name, classes, boards, price) ==
  [name |-> name, classes |-> classes, boards |-> boards, pricePerHour |-> price]

OpenAllDay == [from |-> 0, to |-> DayMinutes]

InitTutors ==
  [t \in TutorIds |->
     [user |-> IF t = "t1" THEN "ut1" ELSE "ut2",
      isAvailableForBooking |-> TRUE,
      subjects |-> IF t = "t1"
                   THEN <<Offering("Math", {"8", "9", "10"}, {"CBSE"}, 600)>>
                   ELSE <<Offering("Math", {"10"}, {"CBSE"}, 500)>>,
      availability |-> OpenAllDay]]

\* Tutor.findOne({ user })
TutorOfUser(u) == IF \E t \in TutorIds : tutors[t].user = u
                  THEN CHOOSE t \in TutorIds : tutors[t].user = u
                  ELSE "none"

\* tutor.isAvailable(date, startTime, endTime): the declared calendar is open
\* during the whole window
isAvailable(tutor, sessionDate, startTime, endTime) ==
  /\ tutor.availability.from <= WallMinutes(startTime)
  /\ WallMinutes(endTime) <= tutor.availability.to

----------------------------------------------------------------------------
(* Dates *)

\* an ISO 8601 string of the request body: a calendar day and, when the string
\* carries a time part, the minutes of that time; ok = FALSE is a malformed one
IsoDate(day, tod) == [ok |-> TRUE, day |-> day, tod |-> tod]

BadDate == [ok |-> FALSE, day |-> 0, tod |-> 0]

isISO8601(d) == d.ok

\* new Date(scheduledDate): the instant, in minutes
NewDate(d) == d.day * DayMinutes + d.tod

----------------------------------------------------------------------------
(* Pricing *)

\* amounts are held as multiples of 1/AmountScale, which keeps
\* pricePerHour * (duration / 60) and 18% of it exact
AmountScale == 60 * 50

Amount(n) == n * AmountScale

TaxPercent == 18

\* pricing by whole hours
calculatePricing_WholeHours(pricePerHour, duration) ==
  LET baseAmount == pricePerHour * AmountScale * (duration \div 60)
      tax == (baseAmount * TaxPercent) \div 100
  IN [baseAmount |-> baseAmount, tax |-> tax, totalAmount |-> baseAmount + tax]

calculatePricing(pricePerHour, duration) ==
  LET baseAmount == (pricePerHour * AmountScale * duration) \div 60
      tax == (baseAmount * TaxPercent) \div 100
  IN [baseAmount |-> baseAmount, tax |-> tax, totalAmount |-> baseAmount + tax]

----------------------------------------------------------------------------
(* Booking documents *)

NoCancellation ==
  [set |-> FALSE, reason |-> "none", cancelledBy |-> "none", cancelledAt |-> 0,
   refundEligible |-> FALSE, refundAmount |-> 0]

NoPayment ==
  [status |-> "pending", method |-> "none", transactionId |-> "none",
   paymentId |-> "none", refundId |-> "none", refundAmount |-> 0]

\* values the Booking schema gives to fields the constructor call omits
SchemaDefaults ==
  [status |-> "scheduled", payment |-> NoPayment, cancellation |-> NoCancellation]

NewBooking(student, body, sessionDate, pricing) ==
  [student |-> student,
   tutor |-> body.tutorId,
   sessionType |-> body.sessionType,
   subject |-> body.subject,
   class |-> body.class,
   board |-> body.board,
   scheduledDate |-> sessionDate,
   startTime |-> body.startTime,
   endTime |-> body.endTime,
   duration |-> body.duration,
   mode |-> body.mode,
   pricing |-> pricing,
   status |-> SchemaDefaults.status,
   payment |-> SchemaDefaults.payment,
   cancellation |-> SchemaDefaults.cancellation]

BookingIds == DOMAIN bookings

\* the $or of the conflict query, on the stored and requested time strings
TimeClauses(b, startTime, endTime) ==
  \/ StrLte(b.startTime, startTime) /\ StrGt(b.endTime, startTime)
  \/ StrLt(b.startTime, endTime) /\ StrGte(b.endTime, endTime)
  \/ StrGte(b.startTime, startTime) /\ StrLte(b.endTime, endTime)

\* the filter of Booking.findOne in the create handler
ConflictFilter(b, tutorId, sessionDate, startTime, endTime) ==
  /\ b.tutor = tutorId
  /\ b.scheduledDate = sessionDate
  /\ TimeClauses(b, startTime, endTime)
  /\ b.status \in ActiveStatuses

conflictingBooking(store, tutorId, sessionDate, startTime, endTime) ==
  \E i \in DOMAIN store :
    ConflictFilter(store[i], tutorId, sessionDate, startTime, endTime)

----------------------------------------------------------------------------
(* Responses *)

Response(code, message) == [code |-> code, message |-> message, refundAmount |-> 0]

NoResponse == Response(0, "none")

----------------------------------------------------------------------------
(* POST /api/bookings *)

ReqIds == 1..MaxRequests

IdleReq == [pc |-> "idle"]

validCreateBody(body) ==
  /\ body.sessionType \in SessionTypes
  /\ body.subject # ""
  /\ body.class \in Classes
  /\ body.board \in Boards
  /\ isISO8601(body.scheduledDate)
  /\ MatchesTime(body.startTime)
  /\ MatchesTime(body.endTime)
  /\ body.duration \in MinDuration..MaxDuration
  /\ body.mode \in Modes

\* a lookup that tests the name, the class and the board each against any
\* offering, and answers with the first offering of that name
tutorSubject_AnyOffering(tutor, body) ==
  LET named == {i \in DOMAIN tutor.subjects :
                  ToLowerCase(tutor.subjects[i].name) = ToLowerCase(body.subject)}
  IN IF /\ named # {}
        /\ \E i \in DOMAIN tutor.subjects : body.class \in tutor.subjects[i].classes
        /\ \E i \in DOMAIN tutor.subjects : body.board \in tutor.subjects[i].boards
     THEN CHOOSE i \in named : \A j \in named : i <= j
     ELSE 0

\* tutor.subjects.find(...): index of the first matching offering, 0 if none
tutorSubject(tutor, body) ==
  LET matches(s) == /\ ToLowerCase(s.name) = ToLowerCase(body.subject)
                    /\ body.class \in s.classes
                    /\ body.board \in s.boards
      idx == {i \in DOMAIN tutor.subjects : matches(tutor.subjects[i])}
  IN IF idx = {} THEN 0 ELSE CHOOSE i \in idx : \A j \in idx : i <= j

\* the checks of the create handler up to the conflict query: the response that
\* ends the request, or code 0 when every check passed
CreateChecks(user, body) ==
  IF Role(user) # "student" THEN Response(403, "Access denied")
  ELSE IF ~validCreateBody(body) THEN Response(400, "Validation failed")
  ELSE IF StudentOfUser(user) = "none" THEN Response(404, "Student profile not found")
  ELSE IF body.tutorId \notin TutorIds THEN Response(404, "Tutor not found")
  ELSE LET tutor == tutors[body.tutorId] IN
    IF ~tutor.isAvailableForBooking
      THEN Response(400, "Tutor is not available for booking")
    ELSE IF tutorSubject(tutor, body) = 0
      THEN Response(400, "Tutor does not teach this subject for the specified class and board")
    ELSE IF ~isAvailable(tutor, NewDate(body.scheduledDate), body.startTime, body.endTime)
      THEN Response(400, "Tutor is not available at the requested time")
    ELSE IF conflictingBooking(bookings, body.tutorId, NewDate(body.scheduledDate),
                               body.startTime, body.endTime)
      THEN Response(400, "Time slot is already booked")
    ELSE NoResponse

InFlight == Cardinality({r \in ReqIds : reqs[r].pc = "checked"})

\* the handler from the request to the answer of the conflict query
CreateBegin(r, user, body, slots) ==
  /\ r \in slots
  /\ reqs[r].pc = "idle"
  /\ LET out == CreateChecks(user, body) IN
       IF out.code # 0
       THEN /\ reqs' = [reqs EXCEPT ![r] = IdleReq]
            /\ resp' = out
       ELSE /\ Len(bookings) + InFlight < Cardinality(slots)
            /\ reqs' = [reqs EXCEPT ![r] =
                 [pc |-> "checked", student |-> StudentOfUser(user), body |-> body,
                  pricePerHour |->
                    tutors[body.tutorId].subjects[tutorSubject(tutors[body.tutorId], body)].pricePerHour]]
            /\ UNCHANGED resp
  /\ UNCHANGED <<tutors, bookings, now, notices, found, gateway, sockets, activeConnections>>

\* the notifications of a create request, in the order the handler sends them
Notices == <<"studentEmail", "studentSms", "tutorEmail">>

\* which send throws: 0 when every send resolves, k when the k-th one throws
\* (the sends after it never run)
NotifyFailures == 0..Len(Notices)

NoNotices == [sent |-> 0, error |-> FALSE]

\* the try/catch around the sends: the notices sent and whether the catch logged
\* 'Notification sending failed'
sendNotifications(failAt) ==
  [sent |-> IF failAt = 0 THEN Len(Notices) ELSE failAt - 1, error |-> failAt # 0]

\* a handler whose sends are not wrapped: a send that throws reaches the outer
\* catch, which answers 500
CreateSave_NoInnerCatch(r, failAt) ==
  /\ reqs[r].pc = "checked"
  /\ LET q == reqs[r]
         pricing == calculatePricing(q.pricePerHour, q.body.duration)
         booking == NewBooking(q.student, q.body, NewDate(q.body.scheduledDate), pricing)
     IN bookings' = Append(bookings, booking)
  /\ reqs' = [reqs EXCEPT ![r] = IdleReq]
  /\ notices' = sendNotifications(failAt)
  /\ resp' = IF failAt = 0 THEN Response(201, "Booking created successfully")
                           ELSE Response(500, "Failed to create booking")
  /\ UNCHANGED <<tutors, now, found, gateway, sockets, activeConnections>>

\* the rest of the handler: pricing, booking.save(), the notifications and the
\* 201 response
CreateSave(r, failAt) ==
  /\ reqs[r].pc = "checked"
  /\ LET q == reqs[r]
         pricing == calculatePricing(q.pricePerHour, q.body.duration)
         booking == NewBooking(q.student, q.body, NewDate(q.body.scheduledDate), pricing)
     IN bookings' = Append(bookings, booking)
  /\ reqs' = [reqs EXCEPT ![r] = IdleReq]
  /\ notices' = sendNotifications(failAt)
  /\ resp' = Response(201, "Booking created successfully")
  /\ UNCHANGED <<tutors, now, found, gateway, sockets, activeConnections>>

\* The same handler step by step, for a sender that may take its time.
\* booking.save(): the handler then awaits the first send
CreateStore(r) ==
  /\ reqs[r].pc = "checked"
  /\ LET q == reqs[r]
         pricing == calculatePricing(q.pricePerHour, q.body.duration)
         booking == NewBooking(q.student, q.body, NewDate(q.body.scheduledDate), pricing)
     IN bookings' = Append(bookings, booking)
  /\ reqs' = [reqs EXCEPT ![r] = [pc |-> "sending", awaiting |-> 1]]
  /\ notices' = NoNotices
  /\ UNCHANGED <<tutors, now, resp, found, gateway, sockets, activeConnections>>

\* the promise of the awaited send settles: resolved, the handler awaits the
\* next send or, after the last one, answers 201; rejected, the catch logs it
\* and the handler answers 201.  sendEmail and sendSMS await the transport
\* once: they set no timeout and do not retry.
SendSettles(r, resolved) ==
  /\ reqs[r].pc = "sending"
  /\ IF resolved /\ reqs[r].awaiting < Len(Notices)
     THEN /\ reqs' = [reqs EXCEPT ![r].awaiting = @ + 1]
          /\ notices' = [notices EXCEPT !.sent = @ + 1]
          /\ UNCHANGED resp
     ELSE /\ reqs' = [reqs EXCEPT ![r] = IdleReq]
          /\ notices' = IF resolved THEN [notices EXCEPT !.sent = @ + 1]
                                    ELSE [notices EXCEPT !.error = TRUE]
          /\ resp' = Response(201, "Booking created successfully")
  /\ UNCHANGED <<tutors, bookings, now, found, gateway, sockets, activeConnections>>

----------------------------------------------------------------------------
(* Booking model methods *)

\* scheduledDate + startTime: the instant the session starts
SessionStart(b) == b.scheduledDate + WallMinutes(b.startTime)

CancelLeadMinutes == 120

\* booking.canBeCancelled(): the cancellation is at least 2 hours ahead
canBeCancelled(b, t) == t + CancelLeadMinutes <= SessionStart(b)

\* booking.calculateRefundAmount(): the full total, whatever the lead time
calculateRefundAmount(b) == b.pricing.totalAmount

\* the transition table of booking.updateStatus(status, reason); cancelling is
\* the cancel operation's, with its lead-time guard and cancellation record
AllowedTransition(from, to) ==
  \/ from = "scheduled" /\ to = "confirmed"
  \/ from = "confirmed" /\ to = "in_progress"
  \/ from = "in_progress" /\ to = "completed"
  \/ from \in ActiveStatuses /\ to = "no_show"

\* booking.updateStatus(status, reason): the saved document; throws (ok = FALSE)
\* on a transition the table does not allow
updateStatus(b, status, reason) ==
  IF AllowedTransition(b.status, status)
  THEN [ok |-> TRUE, booking |-> [b EXCEPT !.status = status]]
  ELSE [ok |-> FALSE, booking |-> b]

----------------------------------------------------------------------------
(* PUT /api/bookings/:id/status *)

StatusValues == {"confirmed", "in_progress", "completed", "cancelled", "no_show"}

\* a permission test that lets every tutor update every booking
canUpdate_AnyTutor(user, b) == Role(user) \in {"tutor", "admin", "employee"}

\* booking.tutor.user._id equals req.user._id, or a staff role
canUpdate(user, b) ==
  \/ Role(user) = "tutor" /\ tutors[b.tutor].user = user
  \/ Role(user) \in {"admin", "employee"}

UpdateBookingStatus(user, id, status, reason) ==
  /\ IF status \notin StatusValues
     THEN resp' = Response(400, "Validation failed") /\ UNCHANGED bookings
     ELSE IF id \notin BookingIds
     THEN resp' = Response(404, "Booking not found") /\ UNCHANGED bookings
     ELSE IF ~canUpdate(user, bookings[id])
     THEN /\ resp' = Response(403, "You do not have permission to update this booking")
          /\ UNCHANGED bookings
     ELSE LET res == updateStatus(bookings[id], status, reason) IN
       IF res.ok
       THEN /\ bookings' = [bookings EXCEPT ![id] = res.booking]
            /\ resp' = Response(200, "Booking status updated successfully")
       ELSE /\ resp' = Response(500, "Failed to update booking status")
            /\ UNCHANGED bookings
  /\ UNCHANGED <<tutors, reqs, now, notices, found, gateway, sockets, activeConnections>>

----------------------------------------------------------------------------
(* PUT /api/bookings/:id/cancel *)

canCancel(user, b) ==
  \/ Role(user) = "student" /\ StudentUser(b.student) = user
  \/ Role(user) = "tutor" /\ tutors[b.tutor].user = user
  \/ Role(user) \in {"admin", "employee"}

\* a guard that lets a cancellation through one hour before the session
cancelGuard_OneHour(b, t) == t + 60 <= SessionStart(b)

\* the guard of the cancel handler
cancelGuard(b, t) == canBeCancelled(b, t)

\* a cancellation that refunds the base amount, without the tax
cancelledBooking_BaseRefund(b, user, reason, t) ==
  [b EXCEPT !.cancellation =
              [set |-> TRUE, reason |-> reason, cancelledBy |-> Role(user),
               cancelledAt |-> t, refundEligible |-> TRUE,
               refundAmount |-> b.pricing.baseAmount],
            !.status = "cancelled"]

\* a cancellation that sets the status and writes no record
cancelledBooking_NoRecord(b, user, reason, t) == [b EXCEPT !.status = "cancelled"]

\* the cancellation the handler writes, and the status
cancelledBooking(b, user, reason, t) ==
  [b EXCEPT !.cancellation =
              [set |-> TRUE, reason |-> reason, cancelledBy |-> Role(user),
               cancelledAt |-> t, refundEligible |-> TRUE,
               refundAmount |-> calculateRefundAmount(b)],
            !.status = "cancelled"]

\* refundAmount of the response's data
cancelResponseRefund(b) == b.cancellation.refundAmount

NotCancellableMessage ==
  "Booking cannot be cancelled. Must be cancelled at least 2 hours before the session."

\* a cancel handler that saves the cancellation record before it asks the
\* lead-time guard
CancelBooking_RecordBeforeGuard(user, id, reason) ==
  /\ IF reason = ""
     THEN resp' = Response(400, "Validation failed") /\ UNCHANGED bookings
     ELSE IF id \notin BookingIds
     THEN resp' = Response(404, "Booking not found") /\ UNCHANGED bookings
     ELSE IF ~canCancel(user, bookings[id])
     THEN /\ resp' = Response(403, "You do not have permission to cancel this booking")
          /\ UNCHANGED bookings
     ELSE LET saved == cancelledBooking(bookings[id], user, reason, now) IN
          IF ~cancelGuard(bookings[id], now)
          THEN /\ bookings' = [bookings EXCEPT ![id] =
                                 [saved EXCEPT !.status = bookings[id].status]]
               /\ resp' = Response(400, NotCancellableMessage)
          ELSE /\ bookings' = [bookings EXCEPT ![id] = saved]
               /\ resp' = [code |-> 200, message |-> "Booking cancelled successfully",
                           refundAmount |-> cancelResponseRefund(saved)]
  /\ UNCHANGED <<tutors, reqs, now, notices, found, gateway, sockets, activeConnections>>

CancelBooking(user, id, reason) ==
  /\ IF reason = ""
     THEN resp' = Response(400, "Validation failed") /\ UNCHANGED bookings
     ELSE IF id \notin BookingIds
     THEN resp' = Response(404, "Booking not found") /\ UNCHANGED bookings
     ELSE IF ~canCancel(user, bookings[id])
     THEN /\ resp' = Response(403, "You do not have permission to cancel this booking")
          /\ UNCHANGED bookings
     ELSE IF ~cancelGuard(bookings[id], now)
     THEN resp' = Response(400, NotCancellableMessage) /\ UNCHANGED bookings
     ELSE LET saved == cancelledBooking(bookings[id], user, reason, now) IN
          /\ bookings' = [bookings EXCEPT ![id] = saved]
          /\ resp' = [code |-> 200, message |-> "Booking cancelled successfully",
                      refundAmount |-> cancelResponseRefund(saved)]
  /\ UNCHANGED <<tutors, reqs, now, notices, found, gateway, sockets, activeConnections>>

----------------------------------------------------------------------------
(* Payments *)

\* the payment record and status a successful verification writes
paidBooking(b, method, transactionId, paymentId) ==
  [b EXCEPT !.payment = [NoPayment EXCEPT !.status = "paid", !.method = method,
                                          !.transactionId = transactionId,
                                          !.paymentId = paymentId],
            !.status = "confirmed"]

\* a verification that writes the booking once the signature is valid, before
\* the gateway has answered the payment fetch
RazorpayVerify_WriteBeforeFetch(orderId, paymentId, sigOk, fetchOk, id) ==
  /\ IF ~sigOk
     THEN resp' = Response(400, "Invalid payment signature") /\ UNCHANGED bookings
     ELSE /\ resp' = IF fetchOk THEN Response(200, "Payment verified successfully")
                               ELSE Response(500, "Payment verification failed")
          /\ IF id \in BookingIds
             THEN bookings' = [bookings EXCEPT ![id] =
                    paidBooking(bookings[id], "razorpay", paymentId, orderId)]
             ELSE UNCHANGED bookings
  /\ UNCHANGED <<tutors, reqs, now, notices, found, gateway, sockets, activeConnections>>

\* POST /api/payments/razorpay/verify; sigOk: the HMAC of order|payment equals
\* the signature sent; fetchOk: razorpay.payments.fetch answers; id 0: no
\* bookingId in the body
RazorpayVerify(orderId, paymentId, sigOk, fetchOk, id) ==
  /\ IF ~sigOk
     THEN resp' = Response(400, "Invalid payment signature") /\ UNCHANGED bookings
     ELSE IF ~fetchOk
     THEN resp' = Response(500, "Payment verification failed") /\ UNCHANGED bookings
     ELSE /\ resp' = Response(200, "Payment verified successfully")
          /\ IF id \in BookingIds
             THEN bookings' = [bookings EXCEPT ![id] =
                    paidBooking(bookings[id], "razorpay", paymentId, orderId)]
             ELSE UNCHANGED bookings
  /\ UNCHANGED <<tutors, reqs, now, notices, found, gateway, sockets, activeConnections>>

\* POST /api/payments/stripe/confirm; intentStatus: the status of the retrieved
\* payment intent, "error" when paymentIntents.retrieve throws
StripeConfirm(paymentIntentId, intentStatus, id) ==
  /\ IF intentStatus = "error"
     THEN resp' = Response(500, "Payment confirmation failed") /\ UNCHANGED bookings
     ELSE IF intentStatus # "succeeded"
     THEN resp' = Response(400, "Payment not successful") /\ UNCHANGED bookings
     ELSE /\ resp' = Response(200, "Payment confirmed successfully")
          /\ IF id \in BookingIds
             THEN bookings' = [bookings EXCEPT ![id] =
                    paidBooking(bookings[id], "stripe", paymentIntentId, paymentIntentId)]
             ELSE UNCHANGED bookings
  /\ UNCHANGED <<tutors, reqs, now, notices, found, gateway, sockets, activeConnections>>

\* a refund that also takes the refunded amount off the booking's total
refundedBooking_Repriced(b, refundAmount, refundId) ==
  [b EXCEPT !.payment.status = IF refundAmount >= b.pricing.totalAmount
                               THEN "refunded" ELSE "partial_refund",
            !.payment.refundId = refundId,
            !.payment.refundAmount = refundAmount,
            !.pricing.totalAmount = b.pricing.totalAmount - refundAmount]

\* the payment fields the refund handler writes once the gateway has refunded
refundedBooking(b, refundAmount, refundId) ==
  [b EXCEPT !.payment.status = IF refundAmount >= b.pricing.totalAmount
                               THEN "refunded" ELSE "partial_refund",
            !.payment.refundId = refundId,
            !.payment.refundAmount = refundAmount]

\* POST /api/payments/refund; amount 0: no amount in the body; gatewayOk: the
\* gateway's refund call answers
Refund(user, id, amount, reason, gatewayOk) ==
  /\ IF reason = "" \/ amount < 0
     THEN resp' = Response(400, "Validation failed") /\ UNCHANGED bookings
     ELSE IF Role(user) \notin {"admin", "employee"}
     THEN resp' = Response(403, "Access denied") /\ UNCHANGED bookings
     ELSE IF id \notin BookingIds
     THEN resp' = Response(404, "Booking not found") /\ UNCHANGED bookings
     ELSE IF bookings[id].payment.status # "paid"
     THEN /\ resp' = Response(400, "Booking payment is not in paid status")
          /\ UNCHANGED bookings
     ELSE LET b == bookings[id]
              refundAmount == IF amount # 0 THEN amount ELSE b.pricing.totalAmount
          IN IF ~gatewayOk \/ b.payment.method \notin {"razorpay", "stripe"}
             THEN resp' = Response(500, "Failed to process refund") /\ UNCHANGED bookings
             ELSE /\ bookings' = [bookings EXCEPT ![id] = refundedBooking(b, refundAmount, "rf")]
                  /\ resp' = [code |-> 200, message |-> "Refund processed successfully",
                              refundAmount |-> refundAmount]
  /\ UNCHANGED <<tutors, reqs, now, notices, found, gateway, sockets, activeConnections>>

----------------------------------------------------------------------------
(* The payment gateway: orders, intents and refunds *)

\* what the gateways hold: the orders and intents created, and the refunds issued
NoGateway == [orders |-> <<>>, refunds |-> <<>>]

\* order.id / paymentIntent.id of the orders, in the order of creation, and the
\* razorpay_payment_id of the payment a client makes on the order
OrderIds == <<"order_1", "order_2", "order_3", "order_4">>

PaymentIds == <<"pay_1", "pay_2", "pay_3", "pay_4">>

\* Math.round(amount * 100): the amount in paise or cents
SmallestUnit(amount) == (amount * 100 + AmountScale \div 2) \div AmountScale

\* POST /api/payments/razorpay/create-order and /stripe/create-intent; id 0: no
\* bookingId in the body; created: the gateway's create call answers
CreateOrder(user, method, amount, id, created) ==
  /\ Len(gateway.orders) < MaxOrders
  /\ IF amount < Amount(1)
     THEN resp' = Response(400, "Validation failed") /\ UNCHANGED gateway
     ELSE IF ~created
     THEN /\ resp' = Response(500, IF method = "razorpay"
                                   THEN "Failed to create payment order"
                                   ELSE "Failed to create payment intent")
          /\ UNCHANGED gateway
     ELSE /\ gateway' = [gateway EXCEPT !.orders = Append(@,
                 [method |-> method, amount |-> SmallestUnit(amount),
                  userId |-> user, bookingId |-> id])]
          /\ resp' = Response(200, "order")
  /\ UNCHANGED <<tutors, bookings, reqs, now, notices, found, sockets, activeConnections>>

\* a verification of the payment a client has made on order i: the signature
\* is the gateway's, the payment fetch or intent retrieval succeeds; of the
\* caller only the token is checked
VerifyPayment(user, i, id) ==
  /\ user \in UserIds
  /\ i \in DOMAIN gateway.orders
  /\ IF gateway.orders[i].method = "razorpay"
     THEN RazorpayVerify(OrderIds[i], PaymentIds[i], TRUE, TRUE, id)
     ELSE StripeConfirm(OrderIds[i], "succeeded", id)

\* the order a stored transactionId belongs to, 0 when there is none
OrderOf(transactionId) ==
  IF \E i \in DOMAIN gateway.orders : transactionId \in {OrderIds[i], PaymentIds[i]}
  THEN CHOOSE i \in DOMAIN gateway.orders : transactionId \in {OrderIds[i], PaymentIds[i]}
  ELSE 0

RECURSIVE RefundedSum(_, _)
\* the amount the gateway has refunded on a transaction
RefundedSum(refunds, transactionId) ==
  IF refunds = <<>> THEN 0
  ELSE (IF Head(refunds).transactionId = transactionId THEN Head(refunds).amount ELSE 0)
       + RefundedSum(Tail(refunds), transactionId)

\* the gateway refunds no more than was paid
Refundable(transactionId, amount) ==
  /\ OrderOf(transactionId) # 0
  /\ RefundedSum(gateway.refunds, transactionId) + SmallestUnit(amount)
       <= gateway.orders[OrderOf(transactionId)].amount

\* POST /api/payments/refund from the request to the answer of
\* Booking.findById and the check of the payment status
RefundBegin(r, user, id, amount, reason) ==
  /\ reqs[r].pc = "idle"
  /\ IF reason = "" \/ amount < 0
     THEN resp' = Response(400, "Validation failed") /\ UNCHANGED reqs
     ELSE IF Role(user) \notin {"admin", "employee"}
     THEN resp' = Response(403, "Access denied") /\ UNCHANGED reqs
     ELSE IF id \notin BookingIds
     THEN resp' = Response(404, "Booking not found") /\ UNCHANGED reqs
     ELSE IF bookings[id].payment.status # "paid"
     THEN /\ resp' = Response(400, "Booking payment is not in paid status")
          /\ UNCHANGED reqs
     ELSE /\ reqs' = [reqs EXCEPT ![r] =
                [pc |-> "refunding", id |-> id, booking |-> bookings[id],
                 refundAmount |-> IF amount # 0 THEN amount
                                  ELSE bookings[id].pricing.totalAmount]]
          /\ UNCHANGED resp
  /\ UNCHANGED <<tutors, bookings, now, notices, found, gateway, sockets, activeConnections>>

\* the gateway's answer to the refund call, booking.save() (which writes the
\* payment fields the handler has set) and the response
RefundSettles(r, gatewayOk) ==
  /\ reqs[r].pc = "refunding"
  /\ LET q == reqs[r]
         b == q.booking
     IN /\ gatewayOk => /\ Refundable(b.payment.transactionId, q.refundAmount)
                         /\ Len(gateway.refunds) < MaxRefunds
        /\ IF ~gatewayOk \/ b.payment.method \notin {"razorpay", "stripe"}
           THEN /\ resp' = Response(500, "Failed to process refund")
                /\ UNCHANGED <<bookings, gateway>>
           ELSE /\ gateway' = [gateway EXCEPT !.refunds = Append(@,
                       [transactionId |-> b.payment.transactionId,
                        amount |-> SmallestUnit(q.refundAmount)])]
                /\ bookings' = [bookings EXCEPT ![q.id] =
                       refundedBooking(bookings[q.id], q.refundAmount, "rf")]
                /\ resp' = [code |-> 200, message |-> "Refund processed successfully",
                            refundAmount |-> q.refundAmount]
  /\ reqs' = [reqs EXCEPT ![r] = IdleReq]
  /\ UNCHANGED <<tutors, now, notices, found, sockets, activeConnections>>

----------------------------------------------------------------------------
(* The chat server's sockets *)

\* const activeConnections = new Map(): the socket id kept for a user id, 0 for
\* a user id without an entry
NoConnections == [u \in UserIds |-> 0]

SocketIds == 1..MaxSockets

\* what the server emits to the socket of the event: the event name as the
\* message
Emitted(event) == Response(0, event)

\* io.on('connection'): socket s of an authenticated user
Connect(s, user) ==
  /\ \A k \in sockets : k.id # s
  /\ sockets' = sockets \cup {[id |-> s, user |-> user]}
  /\ activeConnections' = [activeConnections EXCEPT ![user] = s]
  /\ resp' = Emitted("connect")
  /\ UNCHANGED <<tutors, bookings, reqs, now, notices, found, gateway>>

\* socket.on('disconnect')
Disconnect(s) ==
  /\ \E k \in sockets :
       /\ k.id = s
       /\ sockets' = sockets \ {k}
       /\ activeConnections' = [activeConnections EXCEPT ![k.user] = 0]
  /\ resp' = Emitted("disconnect")
  /\ UNCHANGED <<tutors, bookings, reqs, now, notices, found, gateway>>

\* socket.on('initiate_call') on socket s
InitiateCall(s, recipientId) ==
  /\ \E k \in sockets : k.id = s
  /\ resp' = IF activeConnections[recipientId] = 0
             THEN Response(0, "Recipient is offline")
             ELSE Emitted("call_initiated")
  /\ UNCHANGED <<tutors, bookings, reqs, now, notices, found, gateway, sockets,
                 activeConnections>>

----------------------------------------------------------------------------
(* POST /api/tutors/profile *)

ProfileUpdate(user, subjects, availability) ==
  /\ IF Role(user) # "tutor"
     THEN resp' = Response(403, "Access denied") /\ UNCHANGED tutors
     ELSE /\ tutors' = [tutors EXCEPT ![TutorOfUser(user)].subjects = subjects,
                                      ![TutorOfUser(user)].availability = availability]
          /\ resp' = Response(200, "Profile updated successfully")
  /\ UNCHANGED <<bookings, reqs, now, notices, found, gateway, sockets, activeConnections>>

----------------------------------------------------------------------------
(* Tutor search: GET /api/tutors and GET /api/location/tutors-nearby *)

\* an optional numeric parameter of a query string: <<>> when it is not sent
None == <<>>

Some(x) == <<x>>

\* the letters of the subject names, bios and patterns in use, in lower case
LowerChars(s) ==
  CASE s \in {"Math", "math", "MATH"} -> <<"m", "a", "t", "h">>
    [] s \in {"Physics", "physics"} -> <<"p", "h", "y", "s", "i", "c", "s">>
    [] s = "Phy" -> <<"p", "h", "y">>
    [] s = "th" -> <<"t", "h">>
    [] s = "maths coach" -> <<"m", "a", "t", "h", "s", " ", "c", "o", "a", "c", "h">>
    [] OTHER -> <<>>

\* new RegExp(pattern, 'i') tested on a string: the pattern, which has no
\* metacharacter, occurs in it, letter case ignored
RegExpI(pattern, text) ==
  LET p == LowerChars(pattern)
      t == LowerChars(text)
  IN \E k \in 0..(Len(t) - Len(p)) : SubSeq(t, k + 1, k + Len(p)) = p

\* coordinates are in units of 1/10000 degree; distances of the Distance
\* Calculator are in 1/100 km, as it rounds them
EarthRadiusKm == 6371

\* Math.PI / 180, in units of 1/10000000
RadiansPerDegree == 174533

CentiKmPerUnit == (EarthRadiusKm * RadiansPerDegree) \div 10000

\* calculateHaversineDistance for two points of one meridian, where
\* a = sin^2(dLat/2) and c = |dLat|: 6371 * c rounded to two decimals
calculateHaversineDistance(lat1, lon1, lat2, lon2) ==
  LET dLat == IF lat2 >= lat1 THEN lat2 - lat1 ELSE lat1 - lat2
  IN (dLat * CentiKmPerUnit + 50000) \div 100000

\* The same function on coordinates in whole degrees, with every intermediate
\* result rounded to four decimals (numbers are in units of 1/10000) as the
\* floating-point operations round theirs.  SineTable[k + 1] is Math.sin of k
\* degrees, k in 0..90.
SineTable ==
  <<
     0, 175, 349, 523, 698, 872, 1045, 1219, 1392, 1564, 1736, 1908, 2079,
     2250, 2419, 2588, 2756, 2924, 3090, 3256, 3420, 3584, 3746, 3907, 4067, 4226,
     4384, 4540, 4695, 4848, 5000, 5150, 5299, 5446, 5592, 5736, 5878, 6018, 6157,
     6293, 6428, 6561, 6691, 6820, 6947, 7071, 7193, 7314, 7431, 7547, 7660, 7771,
     7880, 7986, 8090, 8192, 8290, 8387, 8480, 8572, 8660, 8746, 8829, 8910, 8988,
     9063, 9135, 9205, 9272, 9336, 9397, 9455, 9511, 9563, 9613, 9659, 9703, 9744,
     9781, 9816, 9848, 9877, 9903, 9925, 9945, 9962, 9976, 9986, 9994, 9998, 10000 >>

Unit == SineTable[91]

\* Math.sin of a whole number of degrees in -180..180
Sin(deg) ==
  LET m == IF deg < 0 THEN 0 - deg ELSE deg
      v == SineTable[(IF m > 90 THEN 180 - m ELSE m) + 1]
  IN IF deg < 0 THEN 0 - v ELSE v

\* Math.cos of a latitude in -90..90
Cos(deg) == SineTable[90 - (IF deg < 0 THEN 0 - deg ELSE deg) + 1]

\* the rounded product of two numbers
Times(x, y) ==
  LET p == x * y
  IN IF p >= 0 THEN (p + Unit \div 2) \div Unit ELSE 0 - ((0 - p + Unit \div 2) \div Unit)

NaN == [nan |-> TRUE, value |-> 0]

Number(v) == [nan |-> FALSE, value |-> v]

\* sin^2 of k degrees, k in 0..90
SineSquares == [k \in 0..90 |-> Times(Sin(k), Sin(k))]

\* 2 * Math.atan2(Math.sqrt(a), Math.sqrt(1 - a)) in whole degrees: Math.sqrt
\* of a negative number is NaN, and so is all that is computed from it;
\* otherwise the angle c with sin^2(c / 2) = a, to the nearest degree
CentralAngle(a) ==
  IF Unit - a < 0 THEN NaN
  ELSE LET up == CHOOSE k \in 0..90 :
                   SineSquares[k] >= a /\ (k = 0 \/ SineSquares[k - 1] < a)
           half == IF up > 0 /\ a - SineSquares[up - 1] <= SineSquares[up] - a
                   THEN up - 1 ELSE up
       IN Number(2 * half)

\* calculateHaversineDistance on coordinates in whole, even degrees; the
\* result, when it is a number, is in 1/100 km
haversine(lat1, lon1, lat2, lon2) ==
  LET dLat == lat2 - lat1
      dLon == lon2 - lon1
      a == Times(Sin(dLat \div 2), Sin(dLat \div 2))
           + Times(Times(Times(Cos(lat1), Cos(lat2)), Sin(dLon \div 2)), Sin(dLon \div 2))
      c == CentralAngle(a)
  IN IF c.nan THEN NaN
     ELSE Number((c.value * CentiKmPerUnit + 5) \div 10)

\* a call of the Distance Calculator and what it returns to its caller
Distance(from, to) ==
  /\ resp' = [code |-> 0, message |-> "distance", refundAmount |-> 0,
              from |-> from, to |-> to,
              distance |-> haversine(from[1], from[2], to[1], to[2])]
  /\ UNCHANGED <<tutors, bookings, reqs, now, notices, found, gateway, sockets, activeConnections>>

\* 111.32 km per degree, the figure of the handlers' distance field: metres
\* per 1000 coordinate units
StoreMetresPerUnit == 11132

StoreMetres(lat1, lat2) ==
  ((IF lat2 >= lat1 THEN lat2 - lat1 ELSE lat1 - lat2) * StoreMetresPerUnit) \div 1000

\* how far beyond $maxDistance the store's spatial index may still answer
IndexSlackMetres == 2 * 50

\* $near with $maxDistance: the store answers the documents within the
\* distance and, when its index approximates, those within the slack beyond it
nearMatch(t, lat, maxDistance, approximate) ==
  \/ StoreMetres(lat, t.lat) <= maxDistance
  \/ approximate /\ StoreMetres(lat, t.lat) <= maxDistance + IndexSlackMetres

\* a query object that starts empty, without the two eligibility conditions
matchesQuery_NoEligibility(t, q) ==
  /\ q.search # ""
     => \/ \E i \in DOMAIN t.subjects : RegExpI(q.search, t.subjects[i].name)
        \/ RegExpI(q.search, t.bio)
  /\ q.subject # "" => \E i \in DOMAIN t.subjects : RegExpI(q.subject, t.subjects[i].name)
  /\ q.class # "" => \E i \in DOMAIN t.subjects : q.class \in t.subjects[i].classes
  /\ q.board # "" => \E i \in DOMAIN t.subjects : q.board \in t.subjects[i].boards
  /\ q.teachingMode # "" => q.teachingMode \in t.teachingModes
  /\ q.minRating # None => t.rating >= q.minRating[1]
  /\ q.maxPrice # None
     => \E i \in DOMAIN t.subjects : t.subjects[i].pricePerHour <= q.maxPrice[1]

\* a query object in which the text search is written to the 'subjects.name'
\* key, which the subject filter then overwrites
matchesQuery_SubjectOverwritesSearch(t, q) ==
  /\ t.isAvailableForBooking = TRUE
  /\ t.kyc = "verified"
  /\ (q.search # "" /\ q.subject = "")
     => \E i \in DOMAIN t.subjects : RegExpI(q.search, t.subjects[i].name)
  /\ q.subject # "" => \E i \in DOMAIN t.subjects : RegExpI(q.subject, t.subjects[i].name)
  /\ q.class # "" => \E i \in DOMAIN t.subjects : q.class \in t.subjects[i].classes
  /\ q.board # "" => \E i \in DOMAIN t.subjects : q.board \in t.subjects[i].boards
  /\ q.teachingMode # "" => q.teachingMode \in t.teachingModes
  /\ q.minRating # None => t.rating >= q.minRating[1]
  /\ q.maxPrice # None
     => \E i \in DOMAIN t.subjects : t.subjects[i].pricePerHour <= q.maxPrice[1]

\* the query object of GET /api/tutors, tested on a tutor document as the
\* store tests it: each dotted path of the subjects array by itself
matchesQuery(t, q) ==
  /\ t.isAvailableForBooking = TRUE
  /\ t.kyc = "verified"
  /\ q.search # ""
     => \/ \E i \in DOMAIN t.subjects : RegExpI(q.search, t.subjects[i].name)
        \/ RegExpI(q.search, t.bio)
  /\ q.subject # "" => \E i \in DOMAIN t.subjects : RegExpI(q.subject, t.subjects[i].name)
  /\ q.class # "" => \E i \in DOMAIN t.subjects : q.class \in t.subjects[i].classes
  /\ q.board # "" => \E i \in DOMAIN t.subjects : q.board \in t.subjects[i].boards
  /\ q.teachingMode # "" => q.teachingMode \in t.teachingModes
  /\ q.minRating # None => t.rating >= q.minRating[1]
  /\ q.maxPrice # None
     => \E i \in DOMAIN t.subjects : t.subjects[i].pricePerHour <= q.maxPrice[1]

\* the tutors in the order of their identities
StoreOrder == <<"t1", "t2", "t3", "t4", "t5">>

\* the orders in which the store may answer a find without a sort: the order
\* of the identities, or another one
NaturalOrders == {StoreOrder, <<"t2", "t1", "t3", "t4", "t5">>}

StoreIds == {StoreOrder[i] : i \in DOMAIN StoreOrder}

\* Array.prototype.sort, which is stable, for a comparator that orders by a
\* key: Before(a, b) iff compare(a, b) < 0.  An element comes after those that
\* are before it and after the earlier ones it ties with.
StableSort(seq, Before(_, _)) ==
  LET rank(i) == Cardinality({j \in DOMAIN seq :
                    \/ Before(seq[j], seq[i])
                    \/ ~Before(seq[i], seq[j]) /\ j < i}) + 1
  IN [k \in DOMAIN seq |-> seq[CHOOSE i \in DOMAIN seq : rank(i) = k]]

MinPrice(t) ==
  CHOOSE m \in {t.subjects[i].pricePerHour : i \in DOMAIN t.subjects} :
    \A i \in DOMAIN t.subjects : m <= t.subjects[i].pricePerHour

MaxPrice(t) ==
  CHOOSE m \in {t.subjects[i].pricePerHour : i \in DOMAIN t.subjects} :
    \A i \in DOMAIN t.subjects : m >= t.subjects[i].pricePerHour

\* the switch on sortBy; the location-based query's distance field is read
\* off the joined userInfo array and is absent, so 'distance' sorts on 0
sortTutors(store, ids, sortBy) ==
  LET byRating(a, b) == store[a].rating > store[b].rating
      byPriceLow(a, b) == MinPrice(store[a]) < MinPrice(store[b])
      byPriceHigh(a, b) == MaxPrice(store[a]) > MaxPrice(store[b])
      byExperience(a, b) == store[a].experience > store[b].experience
      unsorted(a, b) == FALSE
  IN CASE sortBy = "price_low" -> StableSort(ids, byPriceLow)
       [] sortBy = "price_high" -> StableSort(ids, byPriceHigh)
       [] sortBy = "distance" -> StableSort(ids, unsorted)
       [] sortBy = "experience" -> StableSort(ids, byExperience)
       [] OTHER -> StableSort(ids, byRating)

\* the documents $near answers, nearest first
nearestFirst(store, ids, lat) ==
  LET nearer(a, b) == StoreMetres(lat, store[a].lat) < StoreMetres(lat, store[b].lat)
  IN StableSort(ids, nearer)

validSearchQuery(q) ==
  /\ q.teachingMode \in {"", "online", "offline", "both"}
  /\ q.minRating # None => q.minRating[1] \in 0..50
  /\ q.maxPrice # None => q.maxPrice[1] >= 0
  /\ q.radius # None => q.radius[1] \in 1..50
  /\ q.page # None => q.page[1] >= 1
  /\ q.limit # None => q.limit[1] \in 1..50

DefaultRadius == 5

DefaultLimit == 10

Ceil(a, b) == (a + b - 1) \div b

\* the filtered and sorted tutors of GET /api/tutors, before pagination
searchAll(store, q, approximate, natural) ==
  LET radius == IF q.radius = None THEN DefaultRadius ELSE q.radius[1]
      located == q.latitude # None /\ q.longitude # None
      keep(id) == /\ matchesQuery(store[id], q)
                  /\ located => nearMatch(store[id], q.latitude[1], radius * 1000, approximate)
      selected == SelectSeq(natural, keep)
      answered == IF located THEN nearestFirst(store, selected, q.latitude[1])
                             ELSE selected
  IN sortTutors(store, answered, q.sortBy)

\* a slice that takes the page number as counted from 0
searchPage_PageFromZero(all, q) ==
  LET page == IF q.page = None THEN 1 ELSE q.page[1]
      limit == IF q.limit = None THEN DefaultLimit ELSE q.limit[1]
      startIndex == page * limit
      endIndex == (page + 1) * limit
  IN [tutors |-> SubSeq(all, startIndex + 1, IF endIndex < Len(all) THEN endIndex ELSE Len(all)),
      currentPage |-> page,
      totalPages |-> Ceil(Len(all), limit),
      totalTutors |-> Len(all),
      hasNext |-> endIndex < Len(all),
      hasPrev |-> startIndex > 0]

\* the data of the response of GET /api/tutors
searchPage(all, q) ==
  LET page == IF q.page = None THEN 1 ELSE q.page[1]
      limit == IF q.limit = None THEN DefaultLimit ELSE q.limit[1]
      startIndex == (page - 1) * limit
      endIndex == page * limit
  IN [tutors |-> SubSeq(all, startIndex + 1, IF endIndex < Len(all) THEN endIndex ELSE Len(all)),
      currentPage |-> page,
      totalPages |-> Ceil(Len(all), limit),
      totalTutors |-> Len(all),
      hasNext |-> endIndex < Len(all),
      hasPrev |-> startIndex > 0]

NoSearch ==
  [tutors |-> <<>>, currentPage |-> 0, totalPages |-> 0, totalTutors |-> 0,
   hasNext |-> FALSE, hasPrev |-> FALSE]

\* GET /api/tutors; storeRunsNear: the store runs a $match stage that holds
\* $near (a store that refuses it makes the aggregate throw); approximate: its
\* spatial index answers beyond the radius, within the slack; natural: the
\* order in which it answers the documents of an unsorted query
SearchTutors(q, storeRunsNear, approximate, natural) ==
  /\ IF ~validSearchQuery(q)
     THEN resp' = Response(400, "Validation failed") /\ found' = NoSearch
     ELSE IF q.latitude # None /\ q.longitude # None /\ ~storeRunsNear
     THEN resp' = Response(500, "Failed to fetch tutors") /\ found' = NoSearch
     ELSE /\ resp' = Response(200, "tutors")
          /\ found' = searchPage(searchAll(tutors, q, approximate, natural), q)
  /\ UNCHANGED <<tutors, bookings, reqs, now, notices, gateway, sockets, activeConnections>>

\* the pipeline of GET /api/location/tutors-nearby: the geo and eligibility
\* $match, the optional subject, class and board stages, $sort by distance and
\* then rating, $limit
nearbyAll(store, q, approximate) ==
  LET radius == IF q.radius = None THEN DefaultRadius ELSE q.radius[1]
      keep(id) ==
        LET t == store[id] IN
        /\ nearMatch(t, q.latitude[1], radius * 1000, approximate)
        /\ t.isAvailableForBooking = TRUE
        /\ t.kyc = "verified"
        /\ q.subject # "" => \E i \in DOMAIN t.subjects : RegExpI(q.subject, t.subjects[i].name)
        /\ q.class # "" => \E i \in DOMAIN t.subjects : q.class \in t.subjects[i].classes
        /\ q.board # "" => \E i \in DOMAIN t.subjects : q.board \in t.subjects[i].boards
      nearer(a, b) ==
        \/ StoreMetres(q.latitude[1], store[a].lat) < StoreMetres(q.latitude[1], store[b].lat)
        \/ /\ StoreMetres(q.latitude[1], store[a].lat) = StoreMetres(q.latitude[1], store[b].lat)
           /\ store[a].rating > store[b].rating
  IN StableSort(nearestFirst(store, SelectSeq(StoreOrder, keep), q.latitude[1]), nearer)

NearbyDefaultLimit == 20

validNearbyQuery(q) ==
  /\ q.latitude # None /\ q.latitude[1] \in (0 - 900000)..900000
  /\ q.longitude # None /\ q.longitude[1] \in (0 - 1800000)..1800000
  /\ q.radius # None => q.radius[1] \in 1..50
  /\ q.limit # None => q.limit[1] \in 1..50

TutorsNearby(q, storeRunsNear, approximate) ==
  /\ IF ~validNearbyQuery(q)
     THEN resp' = Response(400, "Validation failed") /\ found' = NoSearch
     ELSE IF ~storeRunsNear
     THEN resp' = Response(500, "Failed to find nearby tutors") /\ found' = NoSearch
     ELSE LET all == nearbyAll(tutors, q, approximate)
              limit == IF q.limit = None THEN NearbyDefaultLimit ELSE q.limit[1]
          IN /\ resp' = Response(200, "tutors")
             /\ found' = [NoSearch EXCEPT
                            !.tutors = SubSeq(all, 1, IF limit < Len(all) THEN limit ELSE Len(all)),
                            !.totalTutors = Len(all)]
  /\ UNCHANGED <<tutors, bookings, reqs, now, notices, gateway, sockets, activeConnections>>

----------------------------------------------------------------------------
(* KYC: PUT /api/admin/tutors/:id/approve and POST /api/tutors/kyc *)

ApproveTutor(user, id, action) ==
  /\ IF Role(user) # "admin"
     THEN resp' = Response(403, "Access denied") /\ UNCHANGED tutors
     ELSE IF action \notin {"approve", "reject"}
     THEN resp' = Response(400, "Validation failed") /\ UNCHANGED tutors
     ELSE IF id \notin DOMAIN tutors
     THEN resp' = Response(404, "Tutor not found") /\ UNCHANGED tutors
     ELSE /\ tutors' = [tutors EXCEPT ![id].kyc =
                          IF action = "approve" THEN "verified" ELSE "rejected"]
          /\ resp' = Response(200, "Tutor processed successfully")
  /\ UNCHANGED <<bookings, reqs, now, notices, found, gateway, sockets, activeConnections>>

\* an upload that stores the documents and leaves the verification status
UploadKyc_StatusKept(user, hasDocument) ==
  /\ IF Role(user) # "tutor"
     THEN resp' = Response(403, "Access denied") /\ UNCHANGED tutors
     ELSE IF ~hasDocument
     THEN resp' = Response(400, "Aadhaar document is required") /\ UNCHANGED tutors
     ELSE IF \A t \in DOMAIN tutors : tutors[t].user # user
     THEN resp' = Response(404, "Tutor profile not found") /\ UNCHANGED tutors
     ELSE /\ UNCHANGED tutors
          /\ resp' = Response(200, "KYC documents uploaded successfully. Verification pending.")
  /\ UNCHANGED <<bookings, reqs, now, notices, found, gateway, sockets, activeConnections>>

\* hasDocument: the upload carries the aadhaarDocument file
UploadKyc(user, hasDocument) ==
  /\ IF Role(user) # "tutor"
     THEN resp' = Response(403, "Access denied") /\ UNCHANGED tutors
     ELSE IF ~hasDocument
     THEN resp' = Response(400, "Aadhaar document is required") /\ UNCHANGED tutors
     ELSE IF \A t \in DOMAIN tutors : tutors[t].user # user
     THEN resp' = Response(404, "Tutor profile not found") /\ UNCHANGED tutors
     ELSE LET id == CHOOSE t \in DOMAIN tutors : tutors[t].user = user IN
          /\ tutors' = [tutors EXCEPT ![id].kyc = "pending"]
          /\ resp' = Response(200, "KYC documents uploaded successfully. Verification pending.")
  /\ UNCHANGED <<bookings, reqs, now, notices, found, gateway, sockets, activeConnections>>

----------------------------------------------------------------------------
(* Time *)

TickMinutes == 2 * 60

InitNow == 7 * 60

Tick ==
  /\ now < MaxNow
  /\ now' = now + TickMinutes
  /\ UNCHANGED <<tutors, bookings, reqs, resp, notices, found, gateway, sockets, activeConnections>>

----------------------------------------------------------------------------
(* Requests the clients send *)

Body(tutorId, subject, class, date, startTime, endTime, duration) ==
  [tutorId |-> tutorId, sessionType |-> "regular", subject |-> subject,
   class |-> class, board |-> "CBSE", scheduledDate |-> date,
   startTime |-> startTime, endTime |-> endTime, duration |-> duration,
   mode |-> "online"]

Day0 == IsoDate(0, 0)

\* Spec follows one booking through every operation of the three routers
LifeSlots == {1}

CreateBodies ==
  { Body("t1", "Math", "10", Day0, T1000, T1100, 60),
    Body("t2", "math", "10", Day0, T0900u, T1000, 30),
    Body("t1", "Physics", "10", Day0, T1000, T1100, 60),
    Body("t1", "Math", "10", Day0, T2400, T1100, 60),
    Body("tX", "Math", "10", Day0, T1000, T1100, 60) }

Math600 == <<Offering("Math", {"8", "9", "10"}, {"CBSE"}, 600)>>

Math800 == <<Offering("Math", {"8", "9", "10"}, {"CBSE"}, 800)>>

SubjectLists == {Math600, Math800}

StatusInputs == StatusValues \cup {"rescheduled"}

\* booking ids of a request: the stored ones and a stale one
IdInputs == 1..(Len(bookings) + 1)

IntentStatuses == {"succeeded", "processing", "error"}

RefundAmounts == {0, Amount(100)}

----------------------------------------------------------------------------
(* The system *)

Init ==
  /\ tutors = InitTutors
  /\ bookings = <<>>
  /\ reqs = [r \in ReqIds |-> IdleReq]
  /\ now = InitNow
  /\ resp = NoResponse
  /\ notices = NoNotices
  /\ found = NoSearch
  /\ gateway = NoGateway
  /\ sockets = {}
  /\ activeConnections = NoConnections

Create ==
  \/ \E body \in CreateBodies : CreateBegin(1, "us1", body, LifeSlots)
  \/ \E body \in {b \in CreateBodies : b.tutorId = "t1"} :
       CreateBegin(1, "ua", body, LifeSlots)
  \/ \E r \in ReqIds : CreateSave(r, 0)

\* a request the handler rejects before it reads the booking is sent once: its
\* answer depends on nothing else in the request
Pay ==
  \/ \E id \in IdInputs \cup {0} : RazorpayVerify("order", "pay", TRUE, TRUE, id)
  \/ \E sigOk \in BOOLEAN : RazorpayVerify("order", "pay", sigOk, ~sigOk, 1)
  \/ \E id \in IdInputs \cup {0} : StripeConfirm("pi", "succeeded", id)
  \/ \E st \in IntentStatuses \ {"succeeded"} : StripeConfirm("pi", st, 1)

Status ==
  \/ \E u \in UserIds, id \in BookingIds, st \in StatusValues :
       UpdateBookingStatus(u, id, st, "reason")
  \/ \E st \in StatusInputs \ StatusValues :
       UpdateBookingStatus("ut1", 1, st, "reason")
  \/ \E id \in IdInputs \ BookingIds :
       UpdateBookingStatus("ut1", id, "confirmed", "reason")

Cancel ==
  \/ \E u \in UserIds, id \in BookingIds : CancelBooking(u, id, "reason")
  \/ CancelBooking("us1", 1, "")
  \/ \E id \in IdInputs \ BookingIds : CancelBooking("us1", id, "reason")

Refunds ==
  \/ \E id \in BookingIds, a \in RefundAmounts, ok \in BOOLEAN :
       Refund("ua", id, a, "reason", ok)
  \/ \E id \in IdInputs \ BookingIds : Refund("ua", id, 0, "reason", TRUE)
  \/ Refund("us1", 1, 0, "reason", TRUE)
  \/ Refund("ua", 1, 0, "", TRUE)

Profile ==
  \E u \in {"ut1", "us1"}, subjects \in SubjectLists : ProfileUpdate(u, subjects, OpenAllDay)

Next == Pay \/ Create \/ Status \/ Cancel \/ Refunds \/ Profile \/ Tick

Spec == Init /\ [][Next]_vars

----------------------------------------------------------------------------
(* Creation alone, over several bookings: the windows, dates, rates and *)
(* durations of the requests vary                                        *)

DayTime0 == IsoDate(0, 600)

WideBodies ==
  { Body("t1", "Math", "10", Day0, T1000, T1100, 60),
    Body("t1", "Math", "10", Day0, T1100, T1200, 60),
    Body("t1", "Math", "10", Day0, T0900u, T1100, 120),
    Body("t1", "MATH", "8", Day0, T1000, T1030, 50),
    Body("t1", "Math", "10", DayTime0, T1000, T1100, 60),
    Body("t2", "math", "10", Day0, T0900, T1000, 30),
    Body("t2", "Math", "9", Day0, T1000, T1100, 60) }

CreateWide ==
  \/ \E r \in ReqIds, body \in WideBodies : CreateBegin(r, "us1", body, ReqIds)
  \/ \E r \in ReqIds : CreateSave(r, 0)

ProfileRates == ProfileUpdate("ut1", Math800, OpenAllDay)

NextCreate == CreateWide \/ ProfileRates

SpecCreate == Init /\ [][NextCreate]_vars

----------------------------------------------------------------------------
(* Creation against changing offerings and hours: one request at a time *)

\* the bodies above and one whose window runs backwards
OfferBodies ==
  WideBodies \cup { Body("t1", "Math", "10", Day0, T1100, T1000, 60) }

\* two offerings of which neither is Math for class 9
TwoOfferings ==
  <<Offering("Math", {"10"}, {"CBSE"}, 500), Offering("Physics", {"9"}, {"CBSE"}, 700)>>

LateHours == [from |-> 10 * 60, to |-> 12 * 60]

ProfileHours == ProfileUpdate("ut2", TwoOfferings, LateHours)

CreateOffer ==
  \/ \E body \in OfferBodies : CreateBegin(1, "us1", body, LifeSlots)
  \/ \E r \in ReqIds : CreateSave(r, 0)

NextOffer == CreateOffer \/ ProfileRates \/ ProfileHours

SpecOffer == Init /\ [][NextOffer]_vars

----------------------------------------------------------------------------
(* Concurrent requests for one tutor, one date and overlapping windows *)

RaceBodies ==
  { Body("t1", "Math", "10", Day0, T1000, T1100, 60),
    Body("t1", "Math", "10", Day0, T1030, T1100, 30),
    Body("t1", "Math", "10", Day0, T1000, T1200, 120),
    Body("t1", "Math", "10", Day0, T1030, T1200, 90) }

NextRace ==
  \/ \E r \in ReqIds, body \in RaceBodies : CreateBegin(r, "us1", body, ReqIds)
  \/ \E r \in ReqIds : CreateSave(r, 0)

SpecRace == Init /\ [][NextRace]_vars

----------------------------------------------------------------------------
(* The bookings router alone, on one booking: creation with every outcome of *)
(* the notification sends, status updates and cancellations by every user    *)

CreateNotify ==
  \/ \E body \in CreateBodies : CreateBegin(1, "us1", body, LifeSlots)
  \/ \E r \in ReqIds, failAt \in NotifyFailures : CreateSave(r, failAt)

NextGuard == CreateNotify \/ Status \/ Cancel \/ Tick

SpecGuard == Init /\ [][NextGuard]_vars

----------------------------------------------------------------------------
(* Search over a store of five tutor profiles, while KYC decisions and *)
(* profile updates change them                                         *)

\* the searcher of the spec's scenario: latitude 28.6139, longitude 77.2090
SearcherLat == 28 * 10000 + 6139

SearcherLng == 77 * 10000 + 2090

SearchTutor(user, available, kyc, subjects, north, rating, modes, bio, experience) ==
  [user |-> user, isAvailableForBooking |-> available, kyc |-> kyc,
   subjects |-> subjects, availability |-> OpenAllDay,
   lat |-> SearcherLat + north, lng |-> SearcherLng, rating |-> rating,
   teachingModes |-> modes, bio |-> bio, experience |-> experience]

\* Math for class 10 at 900 and Physics for class 9 at 300
TwoPriced ==
  <<Offering("Math", {"10"}, {"CBSE"}, 900), Offering("Physics", {"9"}, {"CBSE"}, 300)>>

Physics400 == <<Offering("Physics", {"11"}, {"ICSE"}, 400)>>

\* t1 at 2.00 km and t2 at 4.89 km of the searcher; t3 not open for booking;
\* t4 not verified; t5 at 5.03 km.  Ratings are in tenths.
SearchStore ==
  [id \in StoreIds |->
     CASE id = "t1" -> SearchTutor("ut1", TRUE, "verified", Math600, 180, 45,
                                   {"online"}, "maths coach", 5)
       [] id = "t2" -> SearchTutor("ut2", TRUE, "verified", TwoPriced, 440, 45,
                                   {"offline"}, "", 3)
       [] id = "t3" -> SearchTutor("ut3", FALSE, "verified", Math600, 100, 50,
                                   {"online", "offline"}, "", 9)
       [] id = "t4" -> SearchTutor("ut4", TRUE, "pending", Math600, 150, 48,
                                   {"online"}, "", 7)
       [] OTHER -> SearchTutor("ut5", TRUE, "verified", Physics400, 452, 40,
                               {"both"}, "", 1)]

BaseQuery ==
  [search |-> "", subject |-> "", class |-> "", board |-> "", teachingMode |-> "",
   minRating |-> None, maxPrice |-> None, latitude |-> None, longitude |-> None,
   radius |-> None, page |-> None, limit |-> None, sortBy |-> "rating"]

\* every combination of the subject, class, board and price filters, with and
\* without the searcher's coordinates
FilterQueries ==
  { [BaseQuery EXCEPT !.subject = sub, !.class = cls, !.board = brd, !.maxPrice = mp,
                      !.latitude = IF geo THEN Some(SearcherLat) ELSE None,
                      !.longitude = IF geo THEN Some(SearcherLng) ELSE None] :
      sub \in {"", "math", "Phy"}, cls \in {"", "9"}, brd \in {"", "CBSE"},
      mp \in {None, Some(500)}, geo \in BOOLEAN }

OtherQueries ==
  { [BaseQuery EXCEPT !.search = "th"],
    [BaseQuery EXCEPT !.teachingMode = "online"],
    [BaseQuery EXCEPT !.minRating = Some(45)],
    [BaseQuery EXCEPT !.sortBy = "price_low", !.limit = Some(2)],
    [BaseQuery EXCEPT !.sortBy = "experience", !.limit = Some(2), !.page = Some(2)],
    [BaseQuery EXCEPT !.radius = Some(0)] }

SearchQueries == FilterQueries \cup OtherQueries

NearbyQueries ==
  { [BaseQuery EXCEPT !.latitude = Some(SearcherLat), !.longitude = Some(SearcherLng),
                      !.subject = sub, !.class = cls, !.limit = lim] :
      sub \in {"", "math"}, cls \in {"", "9"}, lim \in {None, Some(1)} }
  \cup { [BaseQuery EXCEPT !.longitude = Some(SearcherLng)] }

InitSearch ==
  /\ tutors = SearchStore
  /\ bookings = <<>>
  /\ reqs = [r \in ReqIds |-> IdleReq]
  /\ now = InitNow
  /\ resp = NoResponse
  /\ notices = NoNotices
  /\ found = NoSearch
  /\ gateway = NoGateway
  /\ sockets = {}
  /\ activeConnections = NoConnections

\* what the store does with a $near in a $match stage: it refuses the stage,
\* runs it exactly, or runs it on an approximating index
StoreAnswers == {<<FALSE, FALSE>>, <<TRUE, FALSE>>, <<TRUE, TRUE>>}

Located(q) == q.latitude # None /\ q.longitude # None

Search ==
  \/ \E q \in {x \in SearchQueries : ~Located(x)}, natural \in NaturalOrders :
       SearchTutors(q, TRUE, FALSE, natural)
  \/ \E q \in {x \in SearchQueries : Located(x)}, a \in StoreAnswers :
       SearchTutors(q, a[1], a[2], StoreOrder)

Nearby ==
  \/ \E q \in {x \in NearbyQueries : ~Located(x)} : TutorsNearby(q, TRUE, FALSE)
  \/ \E q \in {x \in NearbyQueries : Located(x)}, a \in StoreAnswers :
       TutorsNearby(q, a[1], a[2])

Kyc ==
  \/ \E id \in {"t1", "t4", "tX"}, action \in {"approve", "reject", "hold"} :
       ApproveTutor("ua", id, action)
  \/ ApproveTutor("ue", "t4", "approve")
  \/ \E u \in {"ut1", "us1"}, hasDocument \in BOOLEAN : UploadKyc(u, hasDocument)

ProfileOfferings == \E subjects \in {Math600, TwoPriced} : ProfileUpdate("ut2", subjects, OpenAllDay)

NextSearch == Search \/ Nearby \/ Kyc \/ ProfileOfferings

SpecSearch == InitSearch /\ [][NextSearch]_vars

----------------------------------------------------------------------------
(* Creation with a notification sender that answers when it answers, or   *)
(* never: the steps of the handler are taken sooner or later, the answers *)
(* of the sender are not promised                                         *)

CreateChecked == \E body \in CreateBodies : CreateBegin(1, "us1", body, ReqIds)

HandlerStep == \E r \in ReqIds : CreateStore(r)

SenderAnswers == \E r \in ReqIds, resolved \in BOOLEAN : SendSettles(r, resolved)

NextNotify == CreateChecked \/ HandlerStep \/ SenderAnswers \/ Tick

SpecNotify == Init /\ [][NextNotify]_vars /\ WF_vars(HandlerStep)

----------------------------------------------------------------------------
(* The Distance Calculator on pairs of valid coordinates *)

\* latitudes and longitudes in even degrees, with a pole, the date line and
\* two antipodal points among them
Points == {-8, 8, 28, 90} \X {0, 78, 180}

NextDistance == \E from \in Points, to \in Points : Distance(from, to)

SpecDistance == Init /\ [][NextDistance]_vars

----------------------------------------------------------------------------
(* The filters of the search, over the same store and its changes *)

\* every combination of the text search, subject, teaching mode and rating
\* filters
MoreFilterQueries ==
  { [BaseQuery EXCEPT !.search = se, !.subject = sub, !.teachingMode = tm,
                      !.minRating = mr] :
      se \in {"", "Phy"}, sub \in {"", "math"}, tm \in {"", "online"},
      mr \in {None, Some(45)} }

SearchFiltered ==
  \E q \in MoreFilterQueries : SearchTutors(q, TRUE, FALSE, StoreOrder)

NextFilter == SearchFiltered \/ Kyc \/ ProfileOfferings

SpecFilter == InitSearch /\ [][NextFilter]_vars

----------------------------------------------------------------------------
(* Payments at the gateway: one student's booking, orders, verifications and
   refund requests that overlap *)

OrderAmounts == {0, Amount(1)} \cup {bookings[i].pricing.totalAmount : i \in BookingIds}

\* the whole amount, or a part that fits twice into the total of a booking
PartRefunds == {0, Amount(300)}

PayBodies == {Body("t1", "Math", "10", Day0, T1000, T1100, 60)}

Booked ==
  \/ \E body \in PayBodies : CreateBegin(1, "us1", body, LifeSlots)
  \/ CreateSave(1, 0)

Orders ==
  \/ \E method \in {"razorpay", "stripe"}, amount \in OrderAmounts \ {0},
        id \in BookingIds \cup {0} :
       CreateOrder("us1", method, amount, id, TRUE)
  \/ \E amount \in {0, Amount(1)} : CreateOrder("ut2", "razorpay", amount, 0, amount = 0)

Verifications ==
  \E u \in {"us1", "ut2"}, i \in DOMAIN gateway.orders, id \in IdInputs \cup {0} :
    VerifyPayment(u, i, id)

RefundRequests ==
  \/ \E r \in ReqIds, a \in PartRefunds : RefundBegin(r, "ua", 1, a, "reason")
  \/ \E u \in {"us1", "ua"} : RefundBegin(1, u, Len(bookings) + 1, 0, "reason")
  \/ RefundBegin(1, "ua", 1, 0, "")

GatewayRefunds == \E r \in ReqIds, ok \in BOOLEAN : RefundSettles(r, ok)

NextPay == Booked \/ Orders \/ Verifications \/ RefundRequests \/ GatewayRefunds

SpecPay == Init /\ [][NextPay]_vars

----------------------------------------------------------------------------
(* The chat server: sockets connect, disconnect and initiate calls *)

ChatUsers == {"us1", "ut1"}

Connects == \E s \in SocketIds, u \in ChatUsers : Connect(s, u)

Disconnects == \E s \in SocketIds : Disconnect(s)

Calls == \E s \in SocketIds, u \in ChatUsers : InitiateCall(s, u)

NextChat == Connects \/ Disconnects \/ Calls

SpecChat == Init /\ [][NextChat]_vars

----------------------------------------------------------------------------
(* Properties *)

TypeOK ==
  /\ now \in InitNow..(MaxNow + TickMinutes)
  /\ \A i \in BookingIds : bookings[i].status \in ActiveStatuses \cup TerminalStatuses

\* [start,end) of two bookings overlap on the wall clock: s1 < e2 and s2 < e1
WallOverlap(s1, e1, s2, e2) ==
  WallMinutes(s1) < WallMinutes(e2) /\ WallMinutes(s2) < WallMinutes(e1)

\* C1: no two stored bookings of the same tutor and the same date whose status
\* is scheduled, confirmed or in_progress have overlapping [start,end) intervals
C1_NoOverlappingActiveBookings ==
  \A i, j \in BookingIds :
    ( /\ i < j
      /\ bookings[i].tutor = bookings[j].tutor
      /\ bookings[i].scheduledDate = bookings[j].scheduledDate
      /\ bookings[i].status \in ActiveStatuses
      /\ bookings[j].status \in ActiveStatuses )
    => ~WallOverlap(bookings[i].startTime, bookings[i].endTime,
                    bookings[j].startTime, bookings[j].endTime)

CreatedResponse == Response(201, "Booking created successfully")

ConflictResponse == Response(400, "Time slot is already booked")

\* C2: of the create requests for one tutor, one date and overlapping windows,
\* whatever the interleaving of their conflict reads and their saves, exactly
\* one stores a booking and every other one is answered with the conflict error
C2_ExactlyOneRequestStores ==
  (InFlight = 0 /\ resp # NoResponse)
    => /\ Len(bookings) = 1
       /\ resp \in {CreatedResponse, ConflictResponse}

TimeInputs == {T0900u, T0900, T1000, T1030, T1100, T1200}

\* C3: the conflict test flags a stored booking of the requested tutor and date
\* iff its status is scheduled, confirmed or in_progress and the two windows
\* overlap on the wall clock, for every window of times the validator accepts
C3_ConflictTestIsWallClockOverlap ==
  \A i \in BookingIds, s \in TimeInputs, e \in TimeInputs :
    (MatchesTime(s) /\ MatchesTime(e) /\ WallMinutes(s) < WallMinutes(e))
    => ( ConflictFilter(bookings[i], bookings[i].tutor, bookings[i].scheduledDate, s, e)
         <=> ( /\ bookings[i].status \in ActiveStatuses
               /\ WallOverlap(s, e, bookings[i].startTime, bookings[i].endTime) ) )

CancelledResponseMessage == "Booking cancelled successfully"

\* C4: a cancel request of a party to the booking succeeds, leaving the status
\* cancelled, iff the request comes at least 2 hours before scheduled date +
\* start time; otherwise it is answered with the not-cancellable error naming
\* the 2-hour rule
C4_CancelIffTwoHoursAhead ==
  [][ \A u \in UserIds, id \in BookingIds :
        (canCancel(u, bookings[id]) /\ CancelBooking(u, id, "reason"))
        => IF now + CancelLeadMinutes <= SessionStart(bookings[id])
           THEN /\ bookings'[id].status = "cancelled"
                /\ resp'.code = 200
                /\ resp'.message = CancelledResponseMessage
           ELSE /\ bookings'[id].status = bookings[id].status
                /\ resp' = Response(400, NotCancellableMessage) ]_vars

C4_Witness ==
  \E id \in BookingIds :
    /\ bookings[id].status = "cancelled"
    /\ resp.message = CancelledResponseMessage
    /\ now + CancelLeadMinutes = SessionStart(bookings[id])

\* C5: whenever a cancel request succeeds, the stored cancellation record has
\* refundEligible = TRUE and refundAmount = the pricing total, whatever the
\* lead time, and the response returns the stored refundAmount
C5_FullRefundOnCancel ==
  [][ \A u \in UserIds, id \in BookingIds :
        (resp'.code = 200 /\ CancelBooking(u, id, "reason"))
        => /\ bookings'[id].cancellation.refundEligible
           /\ bookings'[id].cancellation.refundAmount = bookings[id].pricing.totalAmount
           /\ resp'.refundAmount = bookings'[id].cancellation.refundAmount ]_vars

C5_Witness ==
  \E id \in BookingIds :
    /\ resp.message = CancelledResponseMessage
    /\ bookings[id].status = "cancelled"
    /\ bookings[id].cancellation.refundAmount = Amount(708)
    /\ resp.refundAmount = Amount(708)
    /\ now + CancelLeadMinutes < SessionStart(bookings[id])

\* the offering of the tutor that a request's subject, class and board match
MatchingOffering(o, body) ==
  /\ ToLowerCase(o.name) = ToLowerCase(body.subject)
  /\ body.class \in o.classes
  /\ body.board \in o.boards

\* C6: a created booking is priced from the rate r of an offering of the tutor
\* that matches the requested subject, class and board: baseAmount = r * d / 60,
\* tax = 18% of baseAmount, totalAmount = baseAmount + tax
C6_PricingOfCreatedBooking ==
  [][ \A r \in ReqIds :
        /\ (reqs[r].pc = "idle" /\ reqs'[r].pc = "checked")
           => \E i \in DOMAIN tutors[reqs'[r].body.tutorId].subjects :
                LET o == tutors[reqs'[r].body.tutorId].subjects[i] IN
                /\ MatchingOffering(o, reqs'[r].body)
                /\ reqs'[r].pricePerHour = o.pricePerHour
        /\ (\E failAt \in NotifyFailures : CreateSave(r, failAt))
           => LET b == bookings'[Len(bookings')]
                  rate == reqs[r].pricePerHour
              IN /\ b.duration \in MinDuration..MaxDuration
                 /\ b.pricing.baseAmount * 60 = rate * b.duration * AmountScale
                 /\ b.pricing.tax * 100 = b.pricing.baseAmount * 18
                 /\ b.pricing.totalAmount = b.pricing.baseAmount + b.pricing.tax
                 /\ (rate = 800 /\ b.duration = 60)
                    => b.pricing = [baseAmount |-> Amount(800), tax |-> Amount(144),
                                    totalAmount |-> Amount(944)]
                 /\ (rate = 500 /\ b.duration = 30)
                    => b.pricing = [baseAmount |-> Amount(250), tax |-> Amount(45),
                                    totalAmount |-> Amount(295)]
                 /\ (rate = 600 /\ b.duration = 60)
                    => b.pricing = [baseAmount |-> Amount(600), tax |-> Amount(108),
                                    totalAmount |-> Amount(708)] ]_vars

C6_Witness ==
  /\ \E i \in BookingIds : bookings[i].pricing.totalAmount = Amount(944)
  /\ \E i \in BookingIds : bookings[i].pricing.totalAmount = Amount(295)

\* C7: the pricing snapshot of a stored booking is left unchanged by every
\* operation: profile and rate updates, status updates, cancellation, payment
\* verification and refund
C7_PricingSnapshotFrozen ==
  [][ \A id \in BookingIds : bookings'[id].pricing = bookings[id].pricing ]_vars

C7_Witness ==
  \E id \in BookingIds :
    /\ bookings[id].tutor = "t1"
    /\ bookings[id].pricing.baseAmount = Amount(600)
    /\ tutors["t1"].subjects = Math800
    /\ bookings[id].payment.status = "refunded"
    /\ bookings[id].status = "cancelled"

Roles == {"student", "tutor", "admin", "employee"}

Frozen(b) ==
  [b EXCEPT !.payment = NoPayment,
            !.cancellation.refundEligible = FALSE,
            !.cancellation.refundAmount = 0]

\* C9: once a booking is completed, cancelled or no_show, no operation changes
\* its status or any field other than its payment and refund fields
C9_TerminalBookingImmutable ==
  [][ \A id \in BookingIds :
        bookings[id].status \in TerminalStatuses
        => Frozen(bookings'[id]) = Frozen(bookings[id]) ]_vars

\* the edges of the lifecycle
Edge(from, to) ==
  \/ from = "scheduled" /\ to = "confirmed"
  \/ from = "confirmed" /\ to = "in_progress"
  \/ from = "in_progress" /\ to = "completed"
  \/ to \in {"cancelled", "no_show"}

\* C10: a booking starts in status scheduled, its status changes only along an
\* edge of the lifecycle, and a status update for a status that is not one edge
\* away is rejected and leaves the booking unchanged
C10_StatusFollowsLifecycle ==
  [][ /\ Len(bookings') > Len(bookings)
         => bookings'[Len(bookings')].status = "scheduled"
      /\ \A id \in BookingIds :
           bookings'[id].status # bookings[id].status
           => Edge(bookings[id].status, bookings'[id].status)
      /\ \A u \in UserIds, id \in BookingIds, st \in StatusValues :
           (UpdateBookingStatus(u, id, st, "reason") /\ ~Edge(bookings[id].status, st))
           => (bookings' = bookings /\ resp'.code # 200) ]_vars

\* C17: every stored booking has a start time strictly before its end time on
\* the same calendar day and a duration between 30 and 180 minutes; a create
\* request whose end time is not after its start time, or whose window would
\* cross midnight, is rejected with the validation error and stores nothing
C17_StoredWindowsRunForward ==
  [][ /\ \A i \in DOMAIN bookings' :
           /\ WallMinutes(bookings'[i].startTime) < WallMinutes(bookings'[i].endTime)
           /\ bookings'[i].duration \in MinDuration..MaxDuration
      /\ \A r \in ReqIds, body \in OfferBodies :
           ( /\ WallMinutes(body.startTime) >= WallMinutes(body.endTime)
             /\ CreateBegin(r, "us1", body, LifeSlots) )
           => /\ resp' = Response(400, "Validation failed")
              /\ reqs'[r] = IdleReq
              /\ bookings' = bookings ]_vars

\* C11: a payment-verification request sets a booking to confirmed with payment
\* status paid only after the gateway check succeeded (valid Razorpay signature
\* and payment fetch, or Stripe intent status succeeded); when the check fails
\* or the gateway call errors, the booking's status and payment are unchanged
C11_PaidOnlyAfterGatewaySuccess ==
  [][ \A id \in BookingIds :
        /\ ( /\ bookings'[id].payment # bookings[id].payment
             /\ bookings'[id].payment.status = "paid" )
           => /\ bookings'[id].status = "confirmed"
              /\ \/ RazorpayVerify("order", "pay", TRUE, TRUE, id)
                 \/ StripeConfirm("pi", "succeeded", id)
        /\ \A sigOk \in BOOLEAN, fetchOk \in BOOLEAN :
             ( /\ ~(sigOk /\ fetchOk)
               /\ resp'.code \in {400, 500}
               /\ RazorpayVerify("order", "pay", sigOk, fetchOk, id) )
             => /\ bookings'[id].status = bookings[id].status
                /\ bookings'[id].payment = bookings[id].payment
        /\ \A st \in IntentStatuses \ {"succeeded"} :
             (resp'.code \in {400, 500} /\ StripeConfirm("pi", st, id))
             => /\ bookings'[id].status = bookings[id].status
                /\ bookings'[id].payment = bookings[id].payment ]_vars

C11_Witness ==
  \E id \in BookingIds :
    /\ bookings[id].status = "confirmed"
    /\ bookings[id].payment.status = "paid"
    /\ bookings[id].payment.method = "stripe"
    /\ resp = Response(500, "Payment verification failed")

\* C12: a status update changes a booking only when the actor is the tutor who
\* owns the booking or has role admin or employee; a request by a student or by
\* a tutor who does not own the booking is answered with the permission error
\* and leaves the booking unchanged
C12_StatusUpdateNeedsOwnerOrStaff ==
  [][ \A u \in UserIds, id \in BookingIds :
        ( /\ Role(u) \notin {"admin", "employee"}
          /\ tutors[bookings[id].tutor].user # u )
        => \A st \in StatusValues :
             UpdateBookingStatus(u, id, st, "reason")
             => /\ bookings' = bookings
                /\ resp' = Response(403, "You do not have permission to update this booking")
    ]_vars

C12_Witness ==
  \E id \in BookingIds :
    /\ bookings[id].status = "in_progress"
    /\ resp = Response(403, "You do not have permission to update this booking")

\* a create request stores a booking only if one offering of the tutor passes
\* Match for the request, and is otherwise rejected with nothing stored
StoresOnlyWithOffering(Match(_, _)) ==
  \A r \in ReqIds :
    /\ (reqs[r].pc = "idle" /\ reqs'[r].pc = "checked")
       => \E i \in DOMAIN tutors[reqs'[r].body.tutorId].subjects :
            Match(tutors[reqs'[r].body.tutorId].subjects[i], reqs'[r].body)
    /\ Len(bookings') > Len(bookings)
       => \E q \in ReqIds :
            /\ reqs[q].pc = "checked"
            /\ bookings'[Len(bookings')].tutor = reqs[q].body.tutorId
            /\ bookings'[Len(bookings')].subject = reqs[q].body.subject
            /\ bookings'[Len(bookings')].class = reqs[q].body.class
            /\ bookings'[Len(bookings')].board = reqs[q].body.board
    /\ \A body \in OfferBodies :
         ( /\ \A i \in DOMAIN tutors[body.tutorId].subjects :
                ~Match(tutors[body.tutorId].subjects[i], body)
           /\ CreateBegin(r, "us1", body, LifeSlots) )
         => /\ reqs'[r] = IdleReq
            /\ bookings' = bookings
            /\ resp'.code = 400

\* an offering whose name is the requested subject, letter for letter
ExactOffering(o, body) ==
  /\ o.name = body.subject
  /\ body.class \in o.classes
  /\ body.board \in o.boards

\* C13, as stated: a create request stores a booking only if the tutor has a
\* single offering whose name equals the requested subject, whose class list
\* contains the requested class and whose board list contains the requested
\* board; otherwise the request is rejected and no booking is stored
C13_StoresOnlyWithExactOffering == [][StoresOnlyWithOffering(ExactOffering)]_vars

\* C13, amended: the same, the name equalling the requested subject when the
\* letter case of both is ignored
C13_StoresOnlyWithSingleOffering == [][StoresOnlyWithOffering(MatchingOffering)]_vars

C13_Witness ==
  /\ resp = Response(400, "Tutor does not teach this subject for the specified class and board")
  /\ tutors["t2"].subjects = TwoOfferings
  /\ \E id \in BookingIds : bookings[id].subject = "MATH" /\ bookings[id].tutor = "t1"

\* the tutor's calendar is open during the whole window
CalendarOpen(tutor, startTime, endTime) ==
  /\ tutor.availability.from <= WallMinutes(startTime)
  /\ WallMinutes(endTime) <= tutor.availability.to

\* a stored booking of the tutor and date, in an active status, whose window
\* overlaps the requested one
SlotTaken(tutorId, date, startTime, endTime) ==
  \E i \in BookingIds :
    /\ bookings[i].tutor = tutorId
    /\ bookings[i].scheduledDate = date
    /\ bookings[i].status \in ActiveStatuses
    /\ WallOverlap(startTime, endTime, bookings[i].startTime, bookings[i].endTime)

\* C14: a create request stores a booking only if both checks pass: the tutor's
\* availability calendar reports the requested window open, and no conflicting
\* booking in scheduled, confirmed or in_progress exists; failing either check
\* rejects the request with no booking stored
C14_StoresOnlyIfOpenAndFree ==
  [][ \A r \in ReqIds :
        /\ (reqs[r].pc = "idle" /\ reqs'[r].pc = "checked")
           => LET body == reqs'[r].body IN
              /\ CalendarOpen(tutors[body.tutorId], body.startTime, body.endTime)
              /\ ~SlotTaken(body.tutorId, NewDate(body.scheduledDate),
                            body.startTime, body.endTime)
        /\ (\E failAt \in NotifyFailures : CreateSave(r, failAt))
           => LET body == reqs[r].body IN
              ~SlotTaken(body.tutorId, NewDate(body.scheduledDate),
                         body.startTime, body.endTime) ]_vars

\* C15: if any notification send (student email, student SMS, tutor email)
\* fails during a create request, the booking stays stored with its status and
\* pricing and the request still reports success; no stored booking is removed
\* or reverted
C15_NotificationFailureKeepsBooking ==
  [][ \A r \in ReqIds, failAt \in 1..Len(Notices) :
        (notices'.error /\ CreateSave(r, failAt))
        => /\ Len(bookings') = Len(bookings) + 1
           /\ \A i \in BookingIds : bookings'[i] = bookings[i]
           /\ LET b == bookings'[Len(bookings')] IN
                /\ b.status = "scheduled"
                /\ b.tutor = reqs[r].body.tutorId
                /\ b.pricing.baseAmount * 60
                     = reqs[r].pricePerHour * b.duration * AmountScale
                /\ b.pricing.totalAmount = b.pricing.baseAmount + b.pricing.tax
           /\ notices'.sent = failAt - 1
           /\ resp' = CreatedResponse ]_vars

C15_Witness ==
  /\ notices = [sent |-> 1, error |-> TRUE]
  /\ resp = CreatedResponse
  /\ \E id \in BookingIds :
       /\ bookings[id].status = "scheduled"
       /\ bookings[id].pricing.totalAmount = Amount(708)

\* C16: when a cancel request is rejected because the lead-time guard fails,
\* the booking is left unchanged: its status does not become cancelled, no
\* cancellation record is stored and no refund amount is computed
C16_RejectedCancelLeavesBooking ==
  [][ \A u \in UserIds, id \in BookingIds :
        ( /\ resp' = Response(400, NotCancellableMessage)
          /\ CancelBooking(u, id, "reason") )
        => /\ now + CancelLeadMinutes > SessionStart(bookings[id])
           /\ bookings' = bookings
           /\ bookings'[id].status = bookings[id].status
           /\ bookings'[id].cancellation = bookings[id].cancellation
           /\ resp'.refundAmount = 0 ]_vars

C16_Witness ==
  \E id \in BookingIds :
    /\ resp = Response(400, NotCancellableMessage)
    /\ bookings[id].status \in ActiveStatuses
    /\ bookings[id].cancellation = NoCancellation
    /\ now + CancelLeadMinutes > SessionStart(bookings[id])

\* the ids of a search response
Returned(data) == {data.tutors[i] : i \in DOMAIN data.tutors}

SearchResponse == Response(200, "tutors")

\* C18: every tutor returned by a tutor search (GET /api/tutors and GET
\* /api/location/tutors-nearby), for any combination of filters, has
\* verification status verified and booking-availability true
C18_ResultsAreVerifiedAndAvailable ==
  [][ (resp' = SearchResponse /\ tutors' = tutors)
      => \A id \in Returned(found') :
           /\ tutors[id].kyc = "verified"
           /\ tutors[id].isAvailableForBooking = TRUE ]_vars

C18_Witness ==
  /\ resp = SearchResponse
  /\ found.tutors = <<"t4", "t1", "t2", "t5">>
  /\ tutors["t4"].kyc = "verified"
  /\ tutors["t1"].kyc = "verified"
  /\ tutors["t3"].isAvailableForBooking = FALSE

\* C19: for every search with coordinates and a radius, every returned tutor's
\* distance from the searcher, recomputed with the Distance Calculator, is
\* <= radiusKm (boundary inclusive), whatever the store's geo pre-filter answers
C19_ResultsWithinRadius ==
  [][ \A q \in SearchQueries \cup NearbyQueries :
        ( /\ Located(q)
          /\ resp' = SearchResponse
          /\ \E a \in StoreAnswers, natural \in NaturalOrders :
               \/ SearchTutors(q, a[1], a[2], natural)
               \/ TutorsNearby(q, a[1], a[2]) )
        => \A id \in Returned(found') :
             calculateHaversineDistance(q.latitude[1], q.longitude[1],
                                        tutors[id].lat, tutors[id].lng)
               <= (IF q.radius = None THEN DefaultRadius ELSE q.radius[1]) * 100 ]_vars

\* the offerings of a tutor that match the subject, class and board of a query
MatchingOfferings(t, q) ==
  {i \in DOMAIN t.subjects :
     /\ q.subject # "" => RegExpI(q.subject, t.subjects[i].name)
     /\ q.class # "" => q.class \in t.subjects[i].classes
     /\ q.board # "" => q.board \in t.subjects[i].boards}

\* C20: the subject, class, board and maximum-price filters of a search are
\* evaluated against the same offering: a tutor is returned only if at least
\* one single offering matches the requested subject, class and board, and the
\* minimum price among the matching offerings is <= maxPrice
C20_FiltersOnOneOffering ==
  [][ \A q \in SearchQueries \cup NearbyQueries :
        ( /\ resp' = SearchResponse
          /\ \E a \in StoreAnswers, natural \in NaturalOrders :
               \/ SearchTutors(q, a[1], a[2], natural)
               \/ TutorsNearby(q, a[1], a[2]) )
        => \A id \in Returned(found') :
             /\ MatchingOfferings(tutors[id], q) # {}
             /\ q.maxPrice # None
                => \E i \in MatchingOfferings(tutors[id], q) :
                     tutors[id].subjects[i].pricePerHour <= q.maxPrice[1] ]_vars

\* the filter criteria of a query
FilterNames ==
  {"search", "subject", "class", "board", "teachingMode", "minRating", "maxPrice"}

\* f is g with some of its filters removed, everything else the same
Narrows(g, f) ==
  /\ \A n \in FilterNames : f[n] = BaseQuery[n] \/ f[n] = g[n]
  /\ \A n \in DOMAIN BaseQuery \ FilterNames : f[n] = g[n]

ResultSet(all) == {all[i] : i \in DOMAIN all}

\* the pairs <<g, f>> of filter sets with f a subset of g
FilterPairs ==
  {p \in (FilterQueries \cup MoreFilterQueries) \X (FilterQueries \cup MoreFilterQueries) :
     Narrows(p[1], p[2])}

\* C21: for every tutor set and every two filter sets F and G with F a subset
\* of G, the unpaginated search result for G is a subset of the result for F
C21_FilterMonotone ==
  \A p \in FilterPairs :
    \A approximate \in (IF Located(p[1]) THEN BOOLEAN ELSE {FALSE}) :
      ResultSet(searchAll(tutors, p[1], approximate, StoreOrder))
        \subseteq ResultSet(searchAll(tutors, p[2], approximate, StoreOrder))

C21_Witness ==
  /\ resp = SearchResponse
  /\ found.tutors # <<>>
  /\ \E g \in MoreFilterQueries, f \in MoreFilterQueries :
       /\ Narrows(g, f)
       /\ found.tutors = searchAll(tutors, g, FALSE, StoreOrder)
       /\ ResultSet(searchAll(tutors, f, FALSE, StoreOrder)) # ResultSet(found.tutors)
       /\ tutors # SearchStore

\* the place of a tutor in the order of the identities
IdentityRank(id) == CHOOSE i \in DOMAIN StoreOrder : StoreOrder[i] = id

\* a comes before b in the declared default order: by rating descending, then
\* (when the searcher's coordinates are given) by distance ascending, then by
\* identity
DeclaredBefore(store, q, a, b) ==
  LET da == IF Located(q)
            THEN calculateHaversineDistance(q.latitude[1], q.longitude[1], store[a].lat, store[a].lng)
            ELSE 0
      db == IF Located(q)
            THEN calculateHaversineDistance(q.latitude[1], q.longitude[1], store[b].lat, store[b].lng)
            ELSE 0
  IN \/ store[a].rating > store[b].rating
     \/ store[a].rating = store[b].rating /\ da < db
     \/ store[a].rating = store[b].rating /\ da = db /\ IdentityRank(a) < IdentityRank(b)

\* C22: with no sort key given, search results are ordered by rating
\* descending; tutors with equal rating are ordered by distance ascending and
\* then by identity, so the order is fully determined by the inputs
C22_DefaultOrderIsDeclared ==
  [][ \A q \in SearchQueries :
        ( /\ q.sortBy = "rating"
          /\ resp' = SearchResponse
          /\ \E a \in StoreAnswers, natural \in NaturalOrders :
               SearchTutors(q, a[1], a[2], natural) )
        => \A i \in DOMAIN found'.tutors, j \in DOMAIN found'.tutors :
             i < j => DeclaredBefore(tutors, q, found'.tutors[i], found'.tutors[j]) ]_vars

\* C26: every create request eventually produces a response: once the
\* booking is stored, the request completes even if the notification sender
\* never answers
C26_StoredRequestCompletes ==
  \A r \in ReqIds : (reqs[r].pc = "sending") ~> (reqs[r].pc = "idle")

\* the limits of a page that differ on a store of this size
PageLimits == 1..(Len(StoreOrder) + 1)

\* the queries whose pages are compared: one for each sort key
PagedQueries ==
  {[BaseQuery EXCEPT !.sortBy = k] : k \in {"rating", "price_low", "experience"}}

Paged(q, page, limit) == [q EXCEPT !.page = Some(page), !.limit = Some(limit)]

RECURSIVE ConcatPages(_, _, _, _)
\* the tutors of pages 1..n of the sequence, one after the other
ConcatPages(all, q, limit, n) ==
  IF n = 0 THEN <<>>
  ELSE ConcatPages(all, q, limit, n - 1) \o searchPage(all, Paged(q, n, limit)).tutors

\* ceil(n / limit): the least number of pages of that limit that hold n tutors
PagesNeeded(n, limit) == CHOOSE k \in 0..n : k * limit >= n /\ (k = 0 \/ (k - 1) * limit < n)

\* C23: pagination is a slice of the fully filtered and sorted sequence: for
\* every limit, concatenating pages 1..totalPages yields exactly that sequence,
\* totalPages = ceil(filteredCount / limit), hasNext holds iff page <
\* totalPages and hasPrev iff page > 1
C23_PagesPartitionTheSequence ==
  \A q \in PagedQueries, limit \in PageLimits, natural \in NaturalOrders :
    LET all == searchAll(tutors, q, FALSE, natural)
        totalPages == PagesNeeded(Len(all), limit)
    IN /\ ConcatPages(all, q, limit, totalPages) = all
       /\ \A page \in 1..(totalPages + 1) :
            LET data == searchPage(all, Paged(q, page, limit)) IN
            /\ data.totalPages = totalPages
            /\ data.totalTutors = Len(all)
            /\ data.currentPage = page
            /\ data.hasNext = (page < totalPages)
            /\ data.hasPrev = (page > 1)

C23_Witness ==
  /\ resp = SearchResponse
  /\ found.currentPage = 2
  /\ found.totalPages = 2
  /\ found.totalTutors = 4
  /\ Len(found.tutors) = 2
  /\ found.hasPrev /\ ~found.hasNext

\* C24: for all valid coordinate pairs a and b, calculateHaversineDistance(a, b)
\* = calculateHaversineDistance(b, a), and calculateHaversineDistance(a, a) = 0
\* (two results are equal when both are numbers and the same number)
C24_DistanceSymmetricAndZero ==
  resp.message = "distance"
  => LET there == resp.distance
         back == haversine(resp.to[1], resp.to[2], resp.from[1], resp.from[2])
     IN /\ ~there.nan /\ ~back.nan
        /\ there.value = back.value
        /\ resp.from = resp.to => there.value = 0

\* C25: every error outcome of createBooking, updateBookingStatus and
\* cancelBooking is classified: validation, conflict, permission,
\* invalid-transition and not-cancellable outcomes are 4xx, and a 5xx is
\* returned only when the system fails to process a valid request (here the
\* store always answers, so every refused request is an invalid one)
C25_RefusedRequestsAre4xx ==
  [][ ( /\ resp'.code \notin {0, 200, 201}
        /\ \/ \E r \in ReqIds, body \in CreateBodies : CreateBegin(r, "us1", body, LifeSlots)
           \/ \E u \in UserIds, id \in IdInputs, st \in StatusInputs :
                UpdateBookingStatus(u, id, st, "reason")
           \/ \E u \in UserIds, id \in IdInputs, reason \in {"", "reason"} :
                CancelBooking(u, id, reason) )
      => resp'.code \in 400..499 ]_vars

\* the caller is the student or the tutor of the booking
PartyTo(u, b) == StudentOfUser(u) = b.student \/ tutors[b.tutor].user = u

\* the order was created for the booking's id and for its pricing total
MadeFor(order, id) ==
  /\ order.bookingId = id
  /\ order.amount = SmallestUnit(bookings[id].pricing.totalAmount)

\* C27: a payment verification marks booking B as paid and confirmed only if
\* the verified payment was made for B: the caller is a party to B, the gateway
\* order or intent was created for B's id, and the paid amount equals B's
\* pricing total
C27_PaidOnlyByItsOwnPayment ==
  [][ \A u \in UserIds, i \in DOMAIN gateway.orders, id \in BookingIds :
        ( /\ VerifyPayment(u, i, id)
          /\ bookings'[id].payment.status = "paid"
          /\ bookings'[id].status = "confirmed" )
        => PartyTo(u, bookings[id]) /\ MadeFor(gateway.orders[i], id) ]_vars

\* the refunds the gateway has issued on the payment of a booking
IssuedRefunds(gw, b) ==
  {k \in DOMAIN gw.refunds : gw.refunds[k].transactionId = b.payment.transactionId}

\* at most one refund issued, and the stored status follows the refunded amount
RefundedOnce(bk, gw) ==
  \A id \in DOMAIN bk :
    LET b == bk[id] IN
      /\ Cardinality(IssuedRefunds(gw, b)) <= 1
      /\ b.payment.status = "refunded" => b.payment.refundAmount >= b.pricing.totalAmount
      /\ b.payment.status = "partial_refund"
           => b.payment.refundAmount < b.pricing.totalAmount

\* C28: a booking's payment is refunded at most once: after any sequence or
\* interleaving of refund requests for the same booking at most one gateway
\* refund has been issued, the payment status is refunded iff the refunded
\* amount >= the pricing total (partial_refund otherwise), and a failed gateway
\* refund leaves the stored payment record as it was (paid, when no other
\* request has refunded it meanwhile)
C28_RefundedAtMostOnce ==
  [][ /\ RefundedOnce(bookings', gateway')
      /\ \A r \in ReqIds : RefundSettles(r, FALSE) => bookings' = bookings ]_vars

\* the users who have a socket connected
Online == {k.user : k \in sockets}

\* C29: after any interleaving of connect and disconnect events a user has an
\* entry in activeConnections iff that user has at least one socket connected
\* (so a call to a user with a socket left is not refused as offline)
C29_RegistryMatchesSockets ==
  \A u \in UserIds : activeConnections[u] # 0 <=> u \in Online

\* C30: a tutor appears in search results only while the latest KYC event for
\* that tutor is an admin approve: a search returns only tutors whose status is
\* verified, only an admin's approve makes a status verified, and a KYC upload
\* or an admin reject leaves a status that is not verified
C30_SearchableOnlyAfterApprove ==
  [][ /\ \A id \in DOMAIN tutors :
           /\ (tutors'[id].kyc = "verified" /\ tutors[id].kyc # "verified")
              => \E u \in UserIds : Role(u) = "admin" /\ ApproveTutor(u, id, "approve")
           /\ (\E u \in UserIds : ApproveTutor(u, id, "reject") /\ resp'.code = 200)
              => tutors'[id].kyc # "verified"
           /\ (\E u \in UserIds :
                 tutors[id].user = u /\ UploadKyc(u, TRUE) /\ resp'.code = 200)
              => tutors'[id].kyc # "verified"
      /\ (resp' = SearchResponse /\ tutors' = tutors)
         => \A id \in Returned(found') : tutors[id].kyc = "verified" ]_vars

\* a search after t1's upload and t4's approval: t4 is returned, t1 is not
C30_Witness ==
  /\ resp = SearchResponse
  /\ tutors["t1"].kyc = "pending"
  /\ tutors["t4"].kyc = "verified"
  /\ "t4" \in Returned(found)
  /\ "t1" \notin Returned(found)
  /\ found.totalTutors = Cardinality({"t2", "t4", "t5"})

====
